---- MODULE Spec2Model ----
(***************************************************************************)
(* SweetShop backend: request handlers of the FastAPI application over the *)
(* relational store (users, sweets, sweet_inventory, purchases, restocks,  *)
(* audit_logs), the bearer-token access gate and the SQLAlchemy session /  *)
(* connection pool that carries each request's transaction.                *)
(*                                                                         *)
(* A request occupies one slot; every awaited store statement of a handler *)
(* is one step, so handlers of different slots interleave exactly where    *)
(* the event loop can switch between them.  A session checks a connection  *)
(* out of the engine's pool at its first statement and gives it back at    *)
(* commit / rollback / close.                                              *)
(***************************************************************************)
EXTENDS Integers, Sequences, FiniteSets, TLC

\* ---------------------------------------------------------------- bounds
NumReq == 2
MaxRequests == 2
MaxQty == 2
MaxFaults == 1
InitQty == 1
MaxOrder == 3

\* ------------------------------------------------------ program constants
PoolSize == 1
MaxOverflow == 0

Slots == 1..NumReq

\* ------------------------------------------------------------------ state
VARIABLES
    users,        \* users joined with roles: id -> role name
    roles,        \* roles table: the names of the roles
    sweets,       \* sweets table: id (position) -> [price, is_deleted]
    inventory,    \* sweet_inventory rows: set of [id, sweet_id, quantity]
    purchases,    \* purchases table: id (position) -> row
    restocks,     \* restocks table: id (position) -> row
    audit_logs,   \* audit_logs table: id (position) -> row
    accounts,     \* users table, credentials: id -> [username, email, password_hash]
    reviews,      \* reviews table: id (position) -> row
    issued,       \* tokens handed out by POST /api/auth/login so far
    pool,         \* connections currently checked out of the engine pool
    req,          \* per slot: the request being handled and its position
    resp,         \* the finished request whose response is being sent
    nreq,         \* requests received so far
    faults,       \* store failures so far
    requests,     \* rate_limiter.requests: user id -> accepted timestamps
    clock,        \* datetime.utcnow().timestamp()
    max_requests, \* the max_requests the limiter's caller passes
    window,       \* the window the limiter's caller passes
    calls         \* the calls of check_rate_limit so far and what they returned

vars == <<users, roles, sweets, inventory, purchases, restocks, audit_logs,
          accounts, reviews, issued, pool, req, resp, nreq, faults,
          requests, clock, max_requests, window, calls>>

\* The module-level rate limiter, its clock and its caller.
Limiter == <<requests, clock, max_requests, window, calls>>

Store == <<users, roles, sweets, inventory, purchases, restocks, audit_logs, accounts, reviews>>

\* ----------------------------------------------------------------- tokens
\* A bearer credential as the handlers see it: no credential at all (header
\* absent, or not of the form "Bearer <token>"), a string that is not a JWT,
\* or a JWT with its subject, role claim, signature and expiry.
NoCredentials == [form |-> "absent", sub |-> 0, role |-> "none", sig |-> "bad", exp |-> "fresh"]
Garbage == [form |-> "garbage", sub |-> 0, role |-> "none", sig |-> "bad", exp |-> "fresh"]
JwtTokens == [form : {"jwt"}, sub : {1, 2, 3}, role : {"admin", "customer", "none"},
              sig : {"good", "bad"}, exp : {"fresh", "expired"}]
\* The credentials requests are drawn from: every kind of unusable credential
\* (with the most favourable claims inside), and well-signed fresh tokens for
\* the admin (user 1), the customer (user 2, also with a forged admin claim
\* and with no role claim) and a user that does not exist (3).
Tokens == {NoCredentials, Garbage} \cup
          {t \in JwtTokens :
              \/ t.sig = "good" /\ t.exp = "fresh" /\ t.sub = 2
              \/ t.sig = "good" /\ t.exp = "fresh" /\ t.sub = 1 /\ t.role \in {"admin", "customer"}
              \/ t.sig = "good" /\ t.exp = "fresh" /\ t.sub = 3 /\ t.role = "admin"
              \/ t.sig = "bad" /\ t.exp = "fresh" /\ t.sub = 2 /\ t.role = "admin"
              \/ t.sig = "good" /\ t.exp = "expired" /\ t.sub = 1 /\ t.role = "admin"}

\* jose jwt.decode: the signature is verified first, then the exp claim.
DecodeToken(tok) ==
    IF tok.form # "jwt" \/ tok.sig = "bad" THEN "invalid"
    ELSE IF tok.exp = "expired" THEN "expired"
    ELSE "ok"

Resp(status, detail) == [status |-> status, detail |-> detail]
Continue == Resp(0, "continue")

\* UserAuthenticator.get_current_user up to (not including) the user lookup.
GetCurrentUserDecode(tok) ==
    IF tok.form = "absent" THEN Resp(401, "Not authenticated")
    ELSE IF DecodeToken(tok) = "expired" THEN Resp(401, "Token expired")
    ELSE IF DecodeToken(tok) = "invalid" THEN Resp(401, "Invalid token")
    ELSE Continue

\* UserAuthenticator.get_current_user: the user lookup and its check.
GetCurrentUserLookup(tok, us) ==
    IF tok.sub \notin DOMAIN us THEN Resp(401, "User not found")
    ELSE Continue

\* ------------------------------------------------------------- the store
SweetRow(name, category_id, price) ==
    [name |-> name, category_id |-> category_id, price |-> price, is_deleted |-> FALSE]

SweetVisible_IgnoresDeleted(sw, id) == id \in DOMAIN sw
\* select(Sweet).where(Sweet.id == id, Sweet.is_deleted == False)
SweetVisible(sw, id) == id \in DOMAIN sw /\ ~sw[id].is_deleted

\* select(SweetInventory).where(SweetInventory.sweet_id == id)
InventoryRows(inv, id) == {row \in inv : row.sweet_id = id}
NoRow == -1
InventoryQuantity(inv, id) ==
    IF InventoryRows(inv, id) = {} THEN NoRow
    ELSE (CHOOSE row \in InventoryRows(inv, id) : TRUE).quantity

\* UPDATE sweet_inventory SET quantity = :q WHERE id = :id, as the unit of
\* work flushes a changed attribute of a loaded row.
UpdateInventory(inv, id, q) ==
    {IF row.sweet_id = id THEN [row EXCEPT !.quantity = q] ELSE row : row \in inv}

\* INSERT INTO sweet_inventory, the store numbering the new row.
\* The table's constraints, UNIQUE (sweet_id) and CHECK (quantity >= 0), are
\* not assumed to refuse a write: they are proved below as invariants, so no
\* handler ever attempts a write that the store would refuse.
InsertInventory(inv, id, q) ==
    inv \cup {[id |-> Cardinality(inv) + 1, sweet_id |-> id, quantity |-> q]}

\* insert_audit_log(), fired AFTER INSERT on purchases and restocks.
AuditRow(table, id, row) ==
    IF table = "purchases"
    THEN [user_id |-> row.user_id, action |-> "PURCHASE", target_table |-> table,
          target_id |-> id,
          metadata |-> [quantity_purchased |-> row.quantity_purchased,
                        total_price |-> row.total_price]]
    ELSE [user_id |-> row.admin_id, action |-> "RESTOCK", target_table |-> table,
          target_id |-> id,
          metadata |-> [quantity_added |-> row.quantity_added]]

InsertAuditLog_KeepsLatest(logs, table, id, row) == <<AuditRow(table, id, row)>>
InsertAuditLog_PurchasesOnly(logs, table, id, row) ==
    IF table = "purchases" THEN Append(logs, AuditRow(table, id, row)) ELSE logs
\* AUDIT_LOG_TRIGGERS: one AFTER INSERT trigger on each of the two tables.
InsertAuditLog(logs, table, id, row) ==
    IF table \in {"purchases", "restocks"} THEN Append(logs, AuditRow(table, id, row))
    ELSE logs

\* ---------------------------------------------------- price arithmetic
\* Prices and totals are DECIMAL(10, 2) columns: whole numbers of cents here.
\* float() is binary floating point, rounding to nearest, ties to even.  The
\* build's significand has 53 bits; a hundredth's binary expansion repeats
\* every 20 bits, so a significand of 53 - 40 bits rounds the same amounts the
\* same way and keeps every intermediate product inside the checker's
\* integers.  A float is m / 2^s.
MantissaBits == 13

RECURSIVE Pow(_, _)
Pow(b, n) == IF n = 0 THEN 1 ELSE b * Pow(b, n - 1)

RoundHalfEven(n, d) ==
    LET q == n \div d
        rem == n % d
    IN IF 2 * rem > d \/ (2 * rem = d /\ q % 2 = 1) THEN q + 1 ELSE q

Normal(m, s) ==
    IF m = Pow(2, MantissaBits) THEN [m |-> m \div 2, s |-> s - 1] ELSE [m |-> m, s |-> s]

RECURSIVE ScaleUp(_, _, _)
ScaleUp(num, den, s) ==
    IF num * Pow(2, s) >= den * Pow(2, MantissaBits - 1) THEN s ELSE ScaleUp(num, den, s + 1)

\* The float nearest to num / den (0 < num / den < 2^(MantissaBits - 1)).
Nearest(num, den) ==
    LET s == ScaleUp(num, den, 0)
    IN Normal(RoundHalfEven(num * Pow(2, s), den), s)

\* float(sweet.price)
FloatOfDecimal(cents) == Nearest(cents, 100)

RECURSIVE ScaleDown(_, _)
ScaleDown(n, k) == IF n < Pow(2, MantissaBits + k) THEN k ELSE ScaleDown(n, k + 1)

\* float * int: the exact product rounded back to the significand's width.
FloatTimes(x, qty) ==
    LET product == x.m * qty
        k == ScaleDown(product, 0)
    IN Normal(RoundHalfEven(product, Pow(2, k)), x.s - k)

\* Decimal(str(x)): str gives the shortest decimal that reads back as x, the
\* one nearest to x among those of its length; digits / 10^places.
RECURSIVE DecimalOfStr(_, _)
DecimalOfStr(x, places) ==
    LET digits == RoundHalfEven(x.m * Pow(10, places), Pow(2, x.s))
    IN IF digits > 0 /\ Nearest(digits, Pow(10, places)) = x
       THEN [digits |-> digits, places |-> places]
       ELSE DecimalOfStr(x, places + 1)

\* total_price = float(sweet.price) * purchase_data.quantity, and the
\* Decimal(str(total_price)) handed to Purchase(...).
ComputedTotal(price, qty) == DecimalOfStr(FloatTimes(FloatOfDecimal(price), qty), 0)

NumericRound_Truncates(d) == (d.digits * 100) \div Pow(10, d.places)
\* A numeric(10, 2) column rounds what it is given to two places, halves
\* away from zero.
NumericRound(d) == (2 * d.digits * 100 + Pow(10, d.places)) \div (2 * Pow(10, d.places))

\* The total_price the purchases row holds, in cents.
TotalPrice(price, qty) == NumericRound(ComputedTotal(price, qty))

\* ------------------------------------------------------ the users table
\* passlib's bcrypt context: verify(plain, hash(plain)) holds and no other
\* password verifies against the hash.
HashPassword(password) == [scheme |-> "bcrypt", of |-> password]
VerifyPassword(password, password_hash) == password_hash = HashPassword(password)

AccountRow(username, email, password) ==
    [username |-> username, email |-> email, password_hash |-> HashPassword(password)]

\* select(User).filter(User.email == email) / (User.username == username)
GetByEmail(acc, email) == {id \in DOMAIN acc : acc[id].email = email}
GetByUsername(acc, username) == {id \in DOMAIN acc : acc[id].username = username}

\* -------------------------------------------------------------- requests
Idle == [kind |-> "none", pc |-> "idle", tok |-> NoCredentials, sweet |-> 0, qty |-> 0,
         price |-> 0, cat |-> 0, user |-> 0, readQty |-> NoRow, conn |-> FALSE,
         wrote |-> FALSE, status |-> 0, detail |-> "none", lookup |-> FALSE,
         username |-> <<>>, email |-> "none", password |-> "none",
         rating |-> 0, comment |-> "none",
         name |-> <<>>, category |-> "", min_price |-> NoRow, max_price |-> NoRow,
         body |-> <<>>, body_user |-> NoRow]

NewRequest(kind, tok, sweet, qty, price, cat) ==
    [Idle EXCEPT !.kind = kind, !.tok = tok, !.sweet = sweet, !.qty = qty,
                 !.price = price, !.cat = cat]

\* A finished request: its response, whether a user/role lookup ran, and
\* (wrote) whether a transaction of the request committed a change.
Done(rq, rsp, lookup) ==
    [rq EXCEPT !.pc = "done", !.status = rsp.status, !.detail = rsp.detail,
               !.lookup = lookup, !.conn = FALSE]

PoolHasFree_NoLimit(p) == TRUE
PoolHasFree_ExtraConnection(p) == p < PoolSize + MaxOverflow + 1
\* QueuePool: a checkout succeeds while fewer than pool_size + max_overflow
\* connections are out.
PoolHasFree(p) == p < PoolSize + MaxOverflow

SweetIds == {1, 2, 3}
Quantities == -1..MaxQty

\* get_db: the handler returned or raised; the session is committed or rolled
\* back and closed, which returns its connection to the pool.
Finish(r, rsp, lookup) ==
    /\ resp = Idle
    /\ resp' = Done(req[r], rsp, lookup)
    /\ req' = [req EXCEPT ![r] = Idle]
    /\ pool' = IF req[r].conn THEN pool - 1 ELSE pool

\* A handler that runs its first statement needs a connection: a handler
\* waiting for one has done nothing, so it is received when it gets one.
Reject(r, rq, rsp, lookup) ==
    /\ resp = Idle
    /\ resp' = Done(rq, rsp, lookup)
    /\ req' = req
    /\ pool' = pool

Enter(r, rq, pc) ==
    /\ PoolHasFree(pool)
    /\ req' = [req EXCEPT ![r] = [rq EXCEPT !.pc = pc, !.conn = TRUE, !.lookup = TRUE]]
    /\ pool' = pool + 1
    /\ resp' = resp

\* The event loop runs one handler step at a time and finishes sending a
\* response before it resumes another handler.
At(r, pc) == resp = Idle /\ req[r].pc = pc
AtAny(r, pcs) == resp = Idle /\ req[r].pc \in pcs

\* A new request takes the first free slot: which slot carries a request
\* has no meaning in the program.
Receivable(r) ==
    /\ At(r, "idle")
    /\ \A q \in Slots : q < r => req[q].pc # "idle"
    /\ nreq < MaxRequests

\* The event loop sends the response of the finished request.
Respond ==
    /\ resp # Idle
    /\ resp' = Idle
    /\ UNCHANGED <<Store, Limiter, issued, pool, req, nreq, faults>>

\* ------------------------------------------------- POST /api/purchases
PurchaseCreateValid_AllowsZero(qty) == qty >= 0
\* PurchaseCreate: quantity: int = Field(gt=0)
PurchaseCreateValid(qty) == qty > 0

\* get_current_user (decode, then the user lookup as the session's first
\* statement), then the framework's report of the body validation of
\* PurchaseCreate (quantity > 0).  The body may carry a user_id key
\* (extras): PurchaseCreate does not declare it and pydantic drops it.
create_purchase_posted(r, toks, quantities, extras) ==
    /\ Receivable(r)
    /\ nreq' = nreq + 1
    /\ \E tok \in toks :
         LET pre == GetCurrentUserDecode(tok)
             chk == GetCurrentUserLookup(tok, users)
             unread == NewRequest("purchase", tok, 0, 0, 0, 0)
         IN IF pre # Continue THEN Reject(r, unread, pre, FALSE)
            ELSE IF chk # Continue THEN PoolHasFree(pool) /\ Reject(r, unread, chk, TRUE)
            ELSE \E sweet \in SweetIds, qty \in quantities, extra \in extras :
                   LET rq == [NewRequest("purchase", tok, sweet, qty, 0, 0)
                                 EXCEPT !.body_user = extra]
                   IN IF ~PurchaseCreateValid(qty)
                      THEN PoolHasFree(pool) /\ Reject(r, rq, Resp(422, "validation error"), TRUE)
                      ELSE Enter(r, [rq EXCEPT !.user = tok.sub], "p_sweet")
    /\ UNCHANGED <<Store, Limiter, issued, faults>>

\* A body of the two declared keys, sweet_id and quantity.
create_purchase_order(r, toks, quantities) ==
    create_purchase_posted(r, toks, quantities, {NoRow})

create_purchase_request(r, toks) == create_purchase_order(r, toks, Quantities)

create_purchase_receive(r) == create_purchase_request(r, Tokens)

create_purchase_sweet(r) ==
    /\ At(r, "p_sweet")
    /\ IF ~SweetVisible(sweets, req[r].sweet)
       THEN Finish(r, Resp(404, "Sweet not found"), TRUE)
       ELSE /\ req' = [req EXCEPT ![r].pc = "p_inv", ![r].price = sweets[req[r].sweet].price]
            /\ UNCHANGED <<pool, resp>>
    /\ UNCHANGED <<Store, Limiter, issued, nreq, faults>>

InsufficientStock_OffByOne(q, requested) == q = NoRow \/ q <= requested
InsufficientStock_RowOnly(q, requested) == q = NoRow
\* if not inventory or inventory.quantity < purchase_data.quantity
InsufficientStock(q, requested) == q = NoRow \/ q < requested

create_purchase_inventory(r) ==
    /\ At(r, "p_inv")
    /\ LET q == InventoryQuantity(inventory, req[r].sweet)
       IN IF InsufficientStock(q, req[r].qty)
          THEN Finish(r, Resp(400, "Insufficient stock available"), TRUE)
          ELSE /\ req' = [req EXCEPT ![r].pc = "p_commit", ![r].readQty = q]
               /\ UNCHANGED <<pool, resp>>
    /\ UNCHANGED <<Store, Limiter, issued, nreq, faults>>

PurchaseRow(rq) ==
    [user_id |-> rq.user, sweet_id |-> rq.sweet, quantity_purchased |-> rq.qty,
     total_price |-> TotalPrice(rq.price, rq.qty)]

PurchaseNewQuantity(rq) == rq.readQty - rq.qty

\* db.commit(): flush the changed inventory row and the new purchase (the
\* trigger appends its audit row in the same transaction), then commit and
\* release the connection.
create_purchase_commit(r) ==
    /\ At(r, "p_commit")
    /\ inventory' = UpdateInventory(inventory, req[r].sweet, PurchaseNewQuantity(req[r]))
    /\ purchases' = Append(purchases, PurchaseRow(req[r]))
    /\ audit_logs' = InsertAuditLog(audit_logs, "purchases", Len(purchases) + 1, PurchaseRow(req[r]))
    /\ req' = [req EXCEPT ![r].pc = "p_refresh", ![r].conn = FALSE, ![r].wrote = TRUE]
    /\ pool' = pool - 1
    /\ UNCHANGED <<Limiter, users, roles, accounts, reviews, issued, sweets, restocks, resp, nreq, faults>>

\* db.refresh(new_purchase) on a fresh connection, the 201 response, and
\* get_db's closing commit.
create_purchase_refresh(r) ==
    /\ At(r, "p_refresh")
    /\ PoolHasFree(pool)
    /\ Finish(r, Resp(201, "created"), TRUE)
    /\ UNCHANGED <<Store, Limiter, issued, nreq, faults>>

\* ------------------------------------------------------ the admin gate
\* HTTPException(detail=...) built without its required status_code raises
\* TypeError inside require_admin_role's try block; the handler at the end of
\* the block turns every exception that is not an HTTPException into this.
RaisedWithoutStatus == Resp(500, "Database error during authentication")

\* require_admin_role: decoding the token and the claims it must carry.
RequireAdminDecode(tok) ==
    IF DecodeToken(tok) = "expired" THEN Resp(401, "Token expired")
    ELSE IF DecodeToken(tok) = "invalid" THEN Resp(401, "Invalid token")
    ELSE IF tok.role = "none" THEN Resp(403, "Role information missing")
    ELSE Continue

RequireAdminLookup_TrustsClaim(tok, us) ==
    IF tok.sub \notin DOMAIN us THEN Resp(401, "User not found")
    ELSE IF tok.role # "admin" THEN RaisedWithoutStatus
    ELSE Continue
\* require_admin_role: the user+role lookup and the two role checks.
RequireAdminLookup(tok, us) ==
    IF tok.sub \notin DOMAIN us THEN Resp(401, "User not found")
    ELSE IF us[tok.sub] # tok.role THEN RaisedWithoutStatus
    ELSE IF us[tok.sub] # "admin" THEN RaisedWithoutStatus
    ELSE Continue

\* ------------------------------------------------ POST /api/admin/restock
RestockRequestValid_AllowsZero(sweet, qty) == sweet > 0 /\ qty >= 0
\* RestockRequest: sweet_id: int = Field(gt=0), quantity_added: int = Field(gt=0)
RestockRequestValid(sweet, qty) == sweet > 0 /\ qty > 0

RestockSweetIds == {0} \cup SweetIds

restock_inventory_request(r, toks) ==
    /\ Receivable(r)
    /\ nreq' = nreq + 1
    /\ \E tok \in toks, sweet \in RestockSweetIds, qty \in Quantities :
         LET rq == NewRequest("restock", tok, sweet, qty, 0, 0)
             pre == RequireAdminDecode(tok)
             chk == RequireAdminLookup(tok, users)
         IN IF ~RestockRequestValid(sweet, qty)
            THEN Reject(r, rq, Resp(422, "validation error"), FALSE)
            ELSE IF tok.form = "absent"
            THEN Reject(r, rq, Resp(401, "Not authenticated"), FALSE)
            ELSE IF pre # Continue THEN Reject(r, rq, pre, FALSE)
            ELSE IF chk # Continue THEN PoolHasFree(pool) /\ Reject(r, rq, chk, TRUE)
            ELSE Enter(r, [rq EXCEPT !.user = tok.sub], "r_sweet")
    /\ UNCHANGED <<Store, Limiter, issued, faults>>

restock_inventory_receive(r) == restock_inventory_request(r, Tokens)

\* get_sweet_or_404
restock_inventory_sweet(r) ==
    /\ At(r, "r_sweet")
    /\ IF ~SweetVisible(sweets, req[r].sweet)
       THEN Finish(r, Resp(404, "Sweet not found"), TRUE)
       ELSE /\ req' = [req EXCEPT ![r].pc = "r_inv"]
            /\ UNCHANGED <<pool, resp>>
    /\ UNCHANGED <<Store, Limiter, issued, nreq, faults>>

restock_inventory_inventory(r) ==
    /\ At(r, "r_inv")
    /\ req' = [req EXCEPT ![r].pc = "r_commit",
                          ![r].readQty = InventoryQuantity(inventory, req[r].sweet)]
    /\ UNCHANGED <<Store, Limiter, issued, pool, resp, nreq, faults>>

RestockRow(rq) ==
    [admin_id |-> rq.user, sweet_id |-> rq.sweet, quantity_added |-> rq.qty]

RestockNewInventory_AlwaysInsert(inv, rq) == InsertInventory(inv, rq.sweet, rq.qty)
\* if inventory: inventory.quantity += quantity_added; else: a new row
RestockNewInventory(inv, rq) ==
    IF rq.readQty = NoRow
    THEN InsertInventory(inv, rq.sweet, rq.qty)
    ELSE UpdateInventory(inv, rq.sweet, rq.readQty + rq.qty)

\* db.commit(): flush the inventory row (changed, or new) and the restock
\* row with its trigger, commit, and release the connection.
restock_inventory_commit(r) ==
    /\ At(r, "r_commit")
    /\ inventory' = RestockNewInventory(inventory, req[r])
    /\ restocks' = Append(restocks, RestockRow(req[r]))
    /\ audit_logs' = InsertAuditLog(audit_logs, "restocks", Len(restocks) + 1,
                                    RestockRow(req[r]))
    /\ req' = [req EXCEPT ![r].pc = "r_refresh", ![r].conn = FALSE, ![r].wrote = TRUE]
    /\ pool' = pool - 1
    /\ UNCHANGED <<Limiter, users, roles, accounts, reviews, issued, sweets, purchases, resp, nreq, faults>>

\* db.refresh(restock), AuditService.log_admin_action (which does nothing),
\* the 201 response.
restock_inventory_refresh(r) ==
    /\ At(r, "r_refresh")
    /\ PoolHasFree(pool)
    /\ Finish(r, Resp(201, "created"), TRUE)
    /\ UNCHANGED <<Store, Limiter, issued, nreq, faults>>

\* --------------------------------------------------- GET /api/admin/users
get_all_users_request(r, toks) ==
    /\ Receivable(r)
    /\ nreq' = nreq + 1
    /\ \E tok \in toks :
         LET rq == NewRequest("list_users", tok, 0, 0, 0, 0)
             pre == RequireAdminDecode(tok)
             chk == RequireAdminLookup(tok, users)
         IN IF tok.form = "absent"
            THEN Reject(r, rq, Resp(401, "Not authenticated"), FALSE)
            ELSE IF pre # Continue THEN Reject(r, rq, pre, FALSE)
            ELSE IF chk # Continue THEN PoolHasFree(pool) /\ Reject(r, rq, chk, TRUE)
            ELSE Enter(r, [rq EXCEPT !.user = tok.sub], "u_list")
    /\ UNCHANGED <<Store, Limiter, issued, faults>>

get_all_users_receive(r) == get_all_users_request(r, Tokens)

\* select(User, Role), the listing as the 200 response.
get_all_users_list(r) ==
    /\ At(r, "u_list")
    /\ Finish(r, Resp(200, "users"), TRUE)
    /\ UNCHANGED <<Store, Limiter, issued, nreq, faults>>

\* ------------------------------------------------ POST /api/sweets/direct
Categories == {1}
CategoryIds == {1, 2}
Prices == {10, 30}
SweetNames == {<<"P", "e", "d", "a">>}

\* Every exception inside create_sweet_direct's try block, HTTPException
\* included, ends in its except clause: 403 if the message mentions both
\* "role" and "admin" (none raised here does), otherwise 500.
DirectExcept(detail) == Resp(500, detail)

create_sweet_direct_receive(r) ==
    /\ Receivable(r)
    /\ nreq' = nreq + 1
    /\ \E tok \in Tokens, name \in SweetNames, price \in Prices, cat \in CategoryIds :
         LET rq == [NewRequest("create_sweet", tok, 0, 0, price, cat) EXCEPT !.name = name]
             pre == RequireAdminDecode(tok)
             chk == RequireAdminLookup(tok, users)
         IN IF tok.form = "absent"
            THEN Reject(r, rq, Resp(401, "Not authenticated"), FALSE)
            ELSE IF DecodeToken(tok) # "ok"
            THEN Reject(r, rq, DirectExcept("JWTError"), FALSE)
            ELSE IF tok.role # "admin"
            THEN Reject(r, rq, Resp(403, "Only admins can create sweets"), FALSE)
            ELSE IF pre # Continue THEN Reject(r, rq, DirectExcept(pre.detail), FALSE)
            ELSE IF chk # Continue
            THEN PoolHasFree(pool) /\ Reject(r, rq, DirectExcept(chk.detail), TRUE)
            ELSE Enter(r, [rq EXCEPT !.user = tok.sub], "c_cat")
    /\ UNCHANGED <<Store, Limiter, issued, faults>>

create_sweet_direct_category(r) ==
    /\ At(r, "c_cat")
    /\ IF req[r].cat \notin Categories
       THEN Finish(r, DirectExcept("Category not found"), TRUE)
       ELSE /\ req' = [req EXCEPT ![r].pc = "c_commit"]
            /\ UNCHANGED <<pool, resp>>
    /\ UNCHANGED <<Store, Limiter, issued, nreq, faults>>

create_sweet_direct_commit(r) ==
    /\ At(r, "c_commit")
    /\ sweets' = Append(sweets, SweetRow(req[r].name, req[r].cat, req[r].price))
    /\ req' = [req EXCEPT ![r].pc = "c_refresh", ![r].conn = FALSE, ![r].wrote = TRUE]
    /\ pool' = pool - 1
    /\ UNCHANGED <<Limiter, users, roles, accounts, reviews, issued, inventory, purchases, restocks, audit_logs, resp, nreq, faults>>

create_sweet_direct_refresh(r) ==
    /\ At(r, "c_refresh")
    /\ PoolHasFree(pool)
    /\ Finish(r, Resp(201, "created"), TRUE)
    /\ UNCHANGED <<Store, Limiter, issued, nreq, faults>>

\* --------------------------------------- PUT / DELETE /api/sweets/{id}
SweetAdminCheck_LetsEveryoneIn(us, user, what) == Continue
\* select(Role).where(Role.id == current_user.role_id) and its check.
SweetAdminCheck(us, user, what) ==
    IF us[user] # "admin" THEN Resp(403, what) ELSE Continue

update_sweet_request(r, toks) ==
    /\ Receivable(r)
    /\ nreq' = nreq + 1
    /\ \E tok \in toks :
         LET pre == GetCurrentUserDecode(tok)
             chk == GetCurrentUserLookup(tok, users)
             unread == NewRequest("update_sweet", tok, 0, 0, 0, 0)
         IN IF pre # Continue THEN Reject(r, unread, pre, FALSE)
            ELSE IF chk # Continue THEN PoolHasFree(pool) /\ Reject(r, unread, chk, TRUE)
            ELSE \E sweet \in SweetIds, price \in Prices :
                   LET rq == NewRequest("update_sweet", tok, sweet, 0, price, 0)
                       adm == SweetAdminCheck(users, tok.sub, "Only admins can update sweets")
                   IN IF adm # Continue THEN PoolHasFree(pool) /\ Reject(r, rq, adm, TRUE)
                      ELSE Enter(r, [rq EXCEPT !.user = tok.sub], "up_sweet")
    /\ UNCHANGED <<Store, Limiter, issued, faults>>

update_sweet_receive(r) == update_sweet_request(r, Tokens)

update_sweet_sweet(r) ==
    /\ At(r, "up_sweet")
    /\ IF ~SweetVisible(sweets, req[r].sweet)
       THEN Finish(r, Resp(404, "Sweet not found"), TRUE)
       ELSE /\ req' = [req EXCEPT ![r].pc = "up_commit"]
            /\ UNCHANGED <<pool, resp>>
    /\ UNCHANGED <<Store, Limiter, issued, nreq, faults>>

\* setattr(sweet, field, value) for the fields given, then db.commit()
update_sweet_commit(r) ==
    /\ At(r, "up_commit")
    /\ sweets' = [sweets EXCEPT ![req[r].sweet].price = req[r].price]
    /\ req' = [req EXCEPT ![r].pc = "up_refresh", ![r].conn = FALSE, ![r].wrote = TRUE]
    /\ pool' = pool - 1
    /\ UNCHANGED <<Limiter, users, roles, accounts, reviews, issued, inventory, purchases, restocks, audit_logs, resp, nreq, faults>>

\* db.refresh(sweet), the reviews query, the 200 response.
update_sweet_refresh(r) ==
    /\ At(r, "up_refresh")
    /\ PoolHasFree(pool)
    /\ Finish(r, Resp(200, "updated"), TRUE)
    /\ UNCHANGED <<Store, Limiter, issued, nreq, faults>>

delete_sweet_request(r, toks) ==
    /\ Receivable(r)
    /\ nreq' = nreq + 1
    /\ \E tok \in toks :
         LET pre == GetCurrentUserDecode(tok)
             chk == GetCurrentUserLookup(tok, users)
             unread == NewRequest("delete_sweet", tok, 0, 0, 0, 0)
         IN IF pre # Continue THEN Reject(r, unread, pre, FALSE)
            ELSE IF chk # Continue THEN PoolHasFree(pool) /\ Reject(r, unread, chk, TRUE)
            ELSE \E sweet \in SweetIds :
                   LET rq == NewRequest("delete_sweet", tok, sweet, 0, 0, 0)
                       adm == SweetAdminCheck(users, tok.sub, "Only admins can delete sweets")
                   IN IF adm # Continue THEN PoolHasFree(pool) /\ Reject(r, rq, adm, TRUE)
                      ELSE Enter(r, [rq EXCEPT !.user = tok.sub], "del_sweet")
    /\ UNCHANGED <<Store, Limiter, issued, faults>>

delete_sweet_receive(r) == delete_sweet_request(r, Tokens)

delete_sweet_sweet(r) ==
    /\ At(r, "del_sweet")
    /\ IF ~SweetVisible(sweets, req[r].sweet)
       THEN Finish(r, Resp(404, "Sweet not found"), TRUE)
       ELSE /\ req' = [req EXCEPT ![r].pc = "del_commit"]
            /\ UNCHANGED <<pool, resp>>
    /\ UNCHANGED <<Store, Limiter, issued, nreq, faults>>

SoftDelete_RemovesRow(sw, id) == SubSeq(sw, 1, id - 1)
\* sweet.is_deleted = True
SoftDelete(sw, id) == [sw EXCEPT ![id].is_deleted = TRUE]

\* sweet.is_deleted = True, db.commit(), the 200 response.
delete_sweet_commit(r) ==
    /\ At(r, "del_commit")
    /\ sweets' = SoftDelete(sweets, req[r].sweet)
    /\ resp = Idle
    /\ resp' = Done([req[r] EXCEPT !.wrote = TRUE], Resp(200, "Sweet deleted successfully"), TRUE)
    /\ req' = [req EXCEPT ![r] = Idle]
    /\ pool' = pool - 1
    /\ UNCHANGED <<Limiter, users, roles, accounts, reviews, issued, inventory, purchases, restocks, audit_logs, nreq, faults>>

\* ------------------------------------------------------ issuing tokens
\* str(user.id) when the token is issued, int(user_id) when it is read.
RECURSIVE IntToStr(_)
IntToStr(n) == IF n < 10 THEN <<n>> ELSE Append(IntToStr(n \div 10), n % 10)

RECURSIVE StrToInt(_)
StrToInt(digits) ==
    IF digits = <<>> THEN 0
    ELSE 10 * StrToInt(SubSeq(digits, 1, Len(digits) - 1)) + digits[Len(digits)]

\* AuthService.login_user: data={"sub": str(user.id), "email": user.email};
\* the dictionary has no "role" key.
LoginClaims(user_id) == [sub |-> IntToStr(user_id), role |-> "none"]

\* JWTTokenManager.create_token: the claims given, plus exp (now + 30 min)
\* and iat, signed with SECRET_KEY.  sub is kept as the readers obtain it,
\* int(payload["sub"]).
CreateToken(data) ==
    [form |-> "jwt", sub |-> StrToInt(data.sub), role |-> data.role,
     sig |-> "good", exp |-> "fresh"]

\* Tokens made with create_access_token directly, as the tests and the seed
\* scripts do: the administrator's and the customer's, role claim included.
DirectTokens == {CreateToken([sub |-> IntToStr(1), role |-> "admin"]),
                 CreateToken([sub |-> IntToStr(2), role |-> "customer"])}

\* ----------------------------------------------- POST /api/auth/register
Usernames == {<<"a", "d", "m">>, <<"A", "d", "m">>, <<"a", "d", "m", "!">>,
              <<"n", "e", "w">>, <<"n", "e">>}
Emails == {"admin@gujaratsweets.com", "new@example.com", "invalid-email"}
Passwords == {"hash123", "securepassword123"}

AlnumChars == {"a", "d", "m", "A", "n", "e", "w", "u", "s", "r"}
Lower(c) == IF c = "A" THEN "a" ELSE c
KeepAlnumOrUnderscore(c) == c \in AlnumChars \/ c = "_"

\* UserCreate.validate_username: characters other than letters, digits and
\* "_" are dropped when the name has no "_", and the name is lower-cased.
ValidateUsername(v) ==
    LET w == IF (\E i \in DOMAIN v : v[i] \notin AlnumChars) /\ (\A i \in DOMAIN v : v[i] # "_")
             THEN SelectSeq(v, KeepAlnumOrUnderscore)
             ELSE v
    IN [i \in DOMAIN w |-> Lower(w[i])]

EmailStrValid(email) == email # "invalid-email"
PasswordLen(password) == IF password = "hash123" THEN 7 ELSE 17

\* UserCreate: username 3..50 characters, email: EmailStr, password >= 8
UserCreateValid(username, email, password) ==
    /\ Len(username) >= 3 /\ Len(username) <= 50
    /\ EmailStrValid(email)
    /\ PasswordLen(password) >= 8

\* The attributes UserCreate declares and those create_user reads from it.
UserCreateFields == {"username", "email", "password"}
CreateUserReads == {"username", "email", "password", "address_line1", "address_line2",
                    "city", "state", "postal_code", "country"}

register_user_receive(r) ==
    /\ Receivable(r)
    /\ nreq' = nreq + 1
    /\ \E username \in Usernames, email \in Emails, password \in Passwords :
         LET rq == [NewRequest("register", NoCredentials, 0, 0, 0, 0) EXCEPT
                       !.username = username, !.email = email, !.password = password]
         IN IF ~UserCreateValid(username, email, password)
            THEN Reject(r, rq, Resp(422, "validation error"), FALSE)
            ELSE Enter(r, [rq EXCEPT !.username = ValidateUsername(username)], "g_email")
    /\ UNCHANGED <<Store, Limiter, issued, faults>>

EmailTaken_Never(acc, email) == FALSE
\* _validate_user_uniqueness: if await self.user_repo.get_by_email(email)
EmailTaken(acc, email) == GetByEmail(acc, email) # {}

UsernameTaken_Never(acc, username) == FALSE
\* _validate_user_uniqueness: if await self.user_repo.get_by_username(username)
UsernameTaken(acc, username) == GetByUsername(acc, username) # {}

register_user_email(r) ==
    /\ At(r, "g_email")
    /\ IF EmailTaken(accounts, req[r].email)
       THEN Finish(r, Resp(400, "Email already registered"), TRUE)
       ELSE /\ req' = [req EXCEPT ![r].pc = "g_username"]
            /\ UNCHANGED <<pool, resp>>
    /\ UNCHANGED <<Store, Limiter, issued, nreq, faults>>

register_user_username(r) ==
    /\ At(r, "g_username")
    /\ IF UsernameTaken(accounts, req[r].username)
       THEN Finish(r, Resp(400, "Username already taken"), TRUE)
       ELSE /\ req' = [req EXCEPT ![r].pc = "g_create"]
            /\ UNCHANGED <<pool, resp>>
    /\ UNCHANGED <<Store, Limiter, issued, nreq, faults>>

GetDefaultRole_NotLookedUp(rl) == Continue
\* UserRepository.get_default_role: select(Role).filter(Role.name == "customer")
GetDefaultRole(rl) ==
    IF "customer" \notin rl THEN Resp(500, "Default role not found") ELSE Continue

\* UserRepository.create_user: get_default_role, then User(...) is built from
\* user_data; reading an attribute UserCreate does not declare raises
\* AttributeError, which no handler catches: 500, get_db rolls back.
\* Otherwise the row is added and committed with the customer role.
register_user_create(r) ==
    /\ At(r, "g_create")
    /\ IF GetDefaultRole(roles) # Continue
       THEN /\ Finish(r, GetDefaultRole(roles), TRUE)
            /\ UNCHANGED <<users, accounts>>
       ELSE IF ~(CreateUserReads \subseteq UserCreateFields)
       THEN /\ Finish(r, Resp(500, "Internal Server Error"), TRUE)
            /\ UNCHANGED <<users, accounts>>
       ELSE LET id == Cardinality(DOMAIN users) + 1
            IN /\ users' = users @@ (id :> "customer")
               /\ accounts' = accounts @@
                     (id :> AccountRow(req[r].username, req[r].email, req[r].password))
               /\ Finish(r, Resp(201, "created"), TRUE)
    /\ UNCHANGED <<Limiter, roles, sweets, inventory, purchases, restocks, audit_logs, reviews,
                   issued, nreq, faults>>

\* -------------------------------------------------- POST /api/auth/login
\* UserLogin: email: EmailStr, password: str
UserLoginValid(email, password) == EmailStrValid(email)

login_user_receive(r) ==
    /\ Receivable(r)
    /\ nreq' = nreq + 1
    /\ \E email \in Emails \cup {"user1@gujaratsweets.com"}, password \in Passwords :
         LET rq == [NewRequest("login", NoCredentials, 0, 0, 0, 0) EXCEPT
                       !.email = email, !.password = password]
         IN IF ~UserLoginValid(email, password)
            THEN Reject(r, rq, Resp(422, "validation error"), FALSE)
            ELSE Enter(r, rq, "l_user")
    /\ UNCHANGED <<Store, Limiter, issued, faults>>

\* AuthService.login_user: the user by email, the password check, the token.
login_user_token(r) ==
    /\ At(r, "l_user")
    /\ LET found == GetByEmail(accounts, req[r].email)
           ok == {id \in found : VerifyPassword(req[r].password, accounts[id].password_hash)}
       IN IF ok = {}
          THEN /\ Finish(r, Resp(401, "Invalid credentials"), TRUE)
               /\ issued' = issued
          ELSE LET id == CHOOSE id \in ok : TRUE
                   token == CreateToken(LoginClaims(id))
               IN /\ resp = Idle
                  /\ resp' = Done([req[r] EXCEPT !.tok = token, !.user = id],
                                  Resp(200, "bearer"), TRUE)
                  /\ req' = [req EXCEPT ![r] = Idle]
                  /\ pool' = pool - 1
                  /\ issued' = issued \cup {token}
    /\ UNCHANGED <<Store, Limiter, nreq, faults>>

\* ---------------------------------------------------- POST /api/reviews
RatingMin == 1
RatingMax == 5
Ratings == {RatingMin - 1, RatingMin, RatingMax, RatingMax + 1}
Comments == {"tasty", "1 union select 2"}

RatingInRange_NoUpperLimit(rating) == ~(rating < RatingMin)
\* if review_data.rating < 1 or review_data.rating > 5: 400
RatingInRange(rating) == ~(rating < RatingMin \/ rating > RatingMax)

\* dangerous_patterns, searched in the upper-cased comment
DangerousComment(comment) == comment = "1 union select 2"

ExistingReview_SwappedColumns(rv, user, sweet) ==
    {i \in DOMAIN rv : rv[i].user_id = sweet /\ rv[i].sweet_id = user}
\* select(Review).where(user_id == current_user.id, sweet_id == sweet_id)
ExistingReview(rv, user, sweet) ==
    {i \in DOMAIN rv : rv[i].user_id = user /\ rv[i].sweet_id = sweet}

\* get_current_user, the body (ReviewCreate declares plain int fields), and
\* the handler's rating check, which comes before its first statement.
create_review_request(r, toks) ==
    /\ Receivable(r)
    /\ nreq' = nreq + 1
    /\ \E tok \in toks :
         LET pre == GetCurrentUserDecode(tok)
             chk == GetCurrentUserLookup(tok, users)
             unread == NewRequest("review", tok, 0, 0, 0, 0)
         IN IF pre # Continue THEN Reject(r, unread, pre, FALSE)
            ELSE IF chk # Continue THEN PoolHasFree(pool) /\ Reject(r, unread, chk, TRUE)
            ELSE \E sweet \in SweetIds, rating \in Ratings, comment \in Comments :
                   LET rq == [NewRequest("review", tok, sweet, 0, 0, 0) EXCEPT
                                 !.rating = rating, !.comment = comment, !.user = tok.sub]
                   IN IF ~RatingInRange(rating)
                      THEN PoolHasFree(pool) /\
                           Reject(r, rq, Resp(400, "Rating must be between 1 and 5"), TRUE)
                      ELSE Enter(r, rq, "v_sweet")
    /\ UNCHANGED <<Store, Limiter, issued, faults>>

create_review_sweet(r) ==
    /\ At(r, "v_sweet")
    /\ IF ~SweetVisible(sweets, req[r].sweet)
       THEN Finish(r, Resp(404, "Sweet not found"), TRUE)
       ELSE /\ req' = [req EXCEPT ![r].pc = "v_existing"]
            /\ UNCHANGED <<pool, resp>>
    /\ UNCHANGED <<Store, Limiter, issued, nreq, faults>>

\* The existing-review query and, with no statement in between, the check
\* of the comment.
create_review_existing(r) ==
    /\ At(r, "v_existing")
    /\ IF ExistingReview(reviews, req[r].user, req[r].sweet) # {}
       THEN Finish(r, Resp(400, "You have already reviewed this sweet"), TRUE)
       ELSE IF DangerousComment(req[r].comment)
       THEN Finish(r, Resp(400, "Invalid input detected"), TRUE)
       ELSE /\ req' = [req EXCEPT ![r].pc = "v_commit"]
            /\ UNCHANGED <<pool, resp>>
    /\ UNCHANGED <<Store, Limiter, issued, nreq, faults>>

ReviewRow(rq) ==
    [user_id |-> rq.user, sweet_id |-> rq.sweet, rating |-> rq.rating, comment |-> rq.comment]

\* db.add(review), db.commit()
create_review_commit(r) ==
    /\ At(r, "v_commit")
    /\ reviews' = Append(reviews, ReviewRow(req[r]))
    /\ req' = [req EXCEPT ![r].pc = "v_refresh", ![r].conn = FALSE, ![r].wrote = TRUE]
    /\ pool' = pool - 1
    /\ UNCHANGED <<Limiter, users, roles, accounts, issued, sweets, inventory, purchases, restocks,
                   audit_logs, resp, nreq, faults>>

\* db.refresh(review), the 201 response.
create_review_refresh(r) ==
    /\ At(r, "v_refresh")
    /\ PoolHasFree(pool)
    /\ Finish(r, Resp(201, "created"), TRUE)
    /\ UNCHANGED <<Store, Limiter, issued, nreq, faults>>

\* ------------------------------------------------- GET /api/sweets/search
\* A handler that returns a list: the response carries it as its body.
FinishWith(r, rsp, body) ==
    /\ resp = Idle
    /\ resp' = [Done(req[r], rsp, TRUE) EXCEPT !.body = body]
    /\ req' = [req EXCEPT ![r] = Idle]
    /\ pool' = IF req[r].conn THEN pool - 1 ELSE pool

\* The categories table (no endpoint writes it).
CategoryName == (1 :> "Mithai")

\* An Optional query parameter that was not given is None.
NoFilter == NoRow
SearchNames == {<<>>, <<"b", "a", "r">>, <<"_", "a">>, <<"x">>}
SearchCategories == {"", "Mithai", "Halwa"}
MinPrices == {NoFilter, 20}
MaxPrices == {NoFilter, 20}

\* ILIKE compares without regard to case.
FoldCase(c) == IF c = "B" THEN "b" ELSE IF c = "L" THEN "l" ELSE IF c = "P" THEN "p" ELSE c

\* LIKE: "%" stands for any run of characters, "_" for any one character.
RECURSIVE Like(_, _)
Like(s, pattern) ==
    IF pattern = <<>> THEN s = <<>>
    ELSE IF Head(pattern) = "%"
         THEN Like(s, Tail(pattern)) \/ (s # <<>> /\ Like(Tail(s), pattern))
    ELSE IF s = <<>> THEN FALSE
    ELSE /\ Head(pattern) = "_" \/ FoldCase(Head(pattern)) = FoldCase(Head(s))
         /\ Like(Tail(s), Tail(pattern))

\* Sweet.name.ilike(f"%{name}%")
NameILike(sweet_name, name) == Like(sweet_name, <<"%">> \o name \o <<"%">>)

SearchVisible_DeletedToo(row) == TRUE
\* .where(Sweet.is_deleted == False)
SearchVisible(row) == ~row.is_deleted

\* The WHERE clause search_sweets builds: each filter that was given (a name
\* that is not empty, a category that was found, a price bound that is not
\* None) narrows the query.
SearchWhere(row, rq) ==
    /\ SearchVisible(row)
    /\ rq.name # <<>> => NameILike(row.name, rq.name)
    /\ rq.category # "" => row.category_id = rq.cat
    /\ rq.min_price # NoFilter => row.price >= rq.min_price
    /\ rq.max_price # NoFilter => row.price <= rq.max_price

\* The characters of the names, in the order of their code points.
Alphabet == <<"B", "L", "P", "a", "d", "e", "f", "i", "o", "r">>
CharRank(c) == CHOOSE i \in DOMAIN Alphabet : Alphabet[i] = c

RECURSIVE NameBefore(_, _)
NameBefore(a, b) ==
    IF b = <<>> THEN FALSE
    ELSE IF a = <<>> THEN TRUE
    ELSE IF Head(a) = Head(b) THEN NameBefore(Tail(a), Tail(b))
    ELSE CharRank(Head(a)) < CharRank(Head(b))

\* ORDER BY sweets.name; rows of one name come in the order of the table.
RECURSIVE OrderByName(_, _)
OrderByName(sw, ids) ==
    IF ids = {} THEN <<>>
    ELSE LET first == CHOOSE id \in ids :
                         \A other \in ids \ {id} :
                             \/ NameBefore(sw[id].name, sw[other].name)
                             \/ sw[id].name = sw[other].name /\ id < other
         IN <<first>> \o OrderByName(sw, ids \ {first})

\* result.scalars().all() of the query: the ids of the sweets returned.
SearchResult(sw, rq) == OrderByName(sw, {id \in DOMAIN sw : SearchWhere(sw[id], rq)})

\* get_current_user, then the handler; its first statement looks the
\* category up when one is named and is the query itself otherwise.
search_sweets_request(r, toks) ==
    /\ Receivable(r)
    /\ nreq' = nreq + 1
    /\ \E tok \in toks :
         LET pre == GetCurrentUserDecode(tok)
             chk == GetCurrentUserLookup(tok, users)
             unread == NewRequest("search", tok, 0, 0, 0, 0)
         IN IF pre # Continue THEN Reject(r, unread, pre, FALSE)
            ELSE IF chk # Continue THEN PoolHasFree(pool) /\ Reject(r, unread, chk, TRUE)
            ELSE \E name \in SearchNames, category \in SearchCategories,
                    min_price \in MinPrices, max_price \in MaxPrices :
                   Enter(r, [unread EXCEPT !.user = tok.sub, !.name = name,
                                           !.category = category,
                                           !.min_price = min_price,
                                           !.max_price = max_price],
                         IF category # "" THEN "s_cat" ELSE "s_query")
    /\ UNCHANGED <<Store, Limiter, issued, faults>>

\* select(Category).where(Category.name == category); "return []" when there
\* is no such category.
search_sweets_category(r) ==
    /\ At(r, "s_cat")
    /\ LET found == {c \in DOMAIN CategoryName : CategoryName[c] = req[r].category}
       IN IF found = {}
          THEN FinishWith(r, Resp(200, "sweets"), <<>>)
          ELSE /\ req' = [req EXCEPT ![r].pc = "s_query", ![r].cat = CHOOSE c \in found : TRUE]
               /\ UNCHANGED <<pool, resp>>
    /\ UNCHANGED <<Store, Limiter, issued, nreq, faults>>

\* db.execute(query.order_by(Sweet.name)), the list as the 200 response.
search_sweets_query(r) ==
    /\ At(r, "s_query")
    /\ FinishWith(r, Resp(200, "sweets"), SearchResult(sweets, req[r]))
    /\ UNCHANGED <<Store, Limiter, issued, nreq, faults>>

\* ------------------------------------ SweetRepository.update_inventory
\* A repository call ends by returning or by raising one of its exceptions.
Returned == Resp(0, "returned")
Raised(exception) == Resp(0, exception)

QuantityChanges == (0 - MaxQty)..MaxQty

\* The caller opens the session; the call's first statement is get_inventory.
update_inventory_call(r) ==
    /\ Receivable(r)
    /\ nreq' = nreq + 1
    /\ \E sweet_id \in SweetIds, quantity_change \in QuantityChanges :
         Enter(r, NewRequest("update_inventory", NoCredentials, sweet_id, quantity_change, 0, 0),
               "ui_get")
    /\ UNCHANGED <<Store, Limiter, issued, faults>>

NegativeQuantity_ZeroToo(quantity) == quantity <= 0
\* if new_quantity < 0 / if quantity_change < 0
NegativeQuantity(quantity) == quantity < 0

\* existing_inventory = await self.get_inventory(sweet_id), and the check of
\* the quantity that would result.
update_inventory_get(r) ==
    /\ At(r, "ui_get")
    /\ LET existing == InventoryQuantity(inventory, req[r].sweet)
       IN IF existing # NoRow
          THEN IF NegativeQuantity(existing + req[r].qty)
               THEN Finish(r, Raised("IntegrityConstraintError"), FALSE)
               ELSE /\ req' = [req EXCEPT ![r].pc = "ui_update", ![r].readQty = existing]
                    /\ UNCHANGED <<pool, resp>>
          ELSE IF NegativeQuantity(req[r].qty)
               THEN Finish(r, Raised("IntegrityConstraintError"), FALSE)
               ELSE /\ req' = [req EXCEPT ![r].pc = "ui_insert"]
                    /\ UNCHANGED <<pool, resp>>
    /\ UNCHANGED <<Store, Limiter, issued, nreq, faults>>

\* update(SweetInventory).where(sweet_id == sweet_id).values(quantity=new_quantity)
update_inventory_update(r) ==
    /\ At(r, "ui_update")
    /\ inventory' = UpdateInventory(inventory, req[r].sweet, req[r].readQty + req[r].qty)
    /\ resp' = Done([req[r] EXCEPT !.wrote = TRUE], Returned, FALSE)
    /\ req' = [req EXCEPT ![r] = Idle]
    /\ pool' = pool - 1
    /\ UNCHANGED <<Limiter, users, roles, accounts, reviews, issued, sweets, purchases, restocks,
                   audit_logs, nreq, faults>>

\* add(new_inventory) and flush: the row's foreign key needs the sweet; an
\* IntegrityError is a SQLAlchemyError, rolled back and raised as DatabaseError.
update_inventory_insert(r) ==
    /\ At(r, "ui_insert")
    /\ IF req[r].sweet \notin DOMAIN sweets
       THEN /\ Finish(r, Raised("DatabaseError"), FALSE)
            /\ inventory' = inventory
       ELSE /\ inventory' = InsertInventory(inventory, req[r].sweet, req[r].qty)
            /\ resp' = Done([req[r] EXCEPT !.wrote = TRUE], Returned, FALSE)
            /\ req' = [req EXCEPT ![r] = Idle]
            /\ pool' = pool - 1
    /\ UNCHANGED <<Limiter, users, roles, accounts, reviews, issued, sweets, purchases, restocks,
                   audit_logs, nreq, faults>>

\* ------------------------------------- AdminService.restock_inventory
\* The service is called with the administrator's id and a restock that the
\* router has checked (quantity_added > 0); its first statement is
\* SweetRepository.is_sweet_available.
admin_service_restock_call(r) ==
    /\ Receivable(r)
    /\ nreq' = nreq + 1
    /\ \E sweet_id \in SweetIds, quantity_added \in 1..MaxQty :
         Enter(r, [NewRequest("service_restock", NoCredentials, sweet_id, quantity_added, 0, 0)
                       EXCEPT !.user = 1],
               "as_sweet")
    /\ UNCHANGED <<Store, Limiter, issued, faults>>

\* if not await self._sweet_repo.is_sweet_available(sweet_id): raise
admin_service_restock_sweet(r) ==
    /\ At(r, "as_sweet")
    /\ IF ~SweetVisible(sweets, req[r].sweet)
       THEN Finish(r, Raised("SweetNotFoundError"), FALSE)
       ELSE /\ req' = [req EXCEPT ![r].pc = "as_commit"]
            /\ UNCHANGED <<pool, resp>>
    /\ UNCHANGED <<Store, Limiter, issued, nreq, faults>>

\* RestockRepository.create_restock: add(restock) and commit(); the restock
\* row and its trigger's audit row are all the unit of work holds.
admin_service_restock_commit(r) ==
    /\ At(r, "as_commit")
    /\ restocks' = Append(restocks, RestockRow(req[r]))
    /\ audit_logs' = InsertAuditLog(audit_logs, "restocks", Len(restocks) + 1,
                                    RestockRow(req[r]))
    /\ req' = [req EXCEPT ![r].pc = "as_refresh", ![r].conn = FALSE, ![r].wrote = TRUE]
    /\ pool' = pool - 1
    /\ UNCHANGED <<Limiter, users, roles, accounts, reviews, issued, sweets, inventory, purchases, resp,
                   nreq, faults>>

\* refresh(restock), log_admin_action (which does nothing), return RestockInfo.
admin_service_restock_return(r) ==
    /\ At(r, "as_refresh")
    /\ PoolHasFree(pool)
    /\ Finish(r, Returned, FALSE)
    /\ UNCHANGED <<Store, Limiter, issued, nreq, faults>>

\* ----------------------------------------------------------------- get_db
\* get_db on its own, under a handler of which only what get_db can see is
\* kept: the statements it runs on the session, and whether it returns or
\* raises.  The calls get_db makes on the session are logged in the
\* request's body.
\* session = async_session(); yield session
get_db_yield(r) ==
    /\ Receivable(r)
    /\ nreq' = nreq + 1
    /\ req' = [req EXCEPT ![r] = [NewRequest("session", NoCredentials, 0, 0, 0, 0)
                                      EXCEPT !.pc = "db_yielded"]]
    /\ UNCHANGED <<Store, Limiter, issued, pool, resp, faults>>

\* The handler executes a statement: the session checks a connection out for
\* its transaction unless it holds one.
handler_statement(r) ==
    /\ At(r, "db_yielded")
    /\ ~req[r].conn
    /\ PoolHasFree(pool)
    /\ req' = [req EXCEPT ![r].conn = TRUE]
    /\ pool' = pool + 1
    /\ UNCHANGED <<Store, Limiter, issued, resp, nreq, faults>>

AfterYield_AlwaysCommits(outcome) == "db_commit"
\* The generator is resumed after the yield when the handler returned; the
\* handler's exception is raised at the yield and caught by "except".
AfterYield(outcome) == IF outcome = "raised" THEN "db_rollback" ELSE "db_commit"

handler_ends(r) ==
    /\ At(r, "db_yielded")
    /\ \E outcome \in {"returned", "raised"} :
         req' = [req EXCEPT ![r].pc = AfterYield(outcome), ![r].detail = outcome]
    /\ UNCHANGED <<Store, Limiter, issued, pool, resp, nreq, faults>>

\* await session.commit(): the transaction ends and its connection goes back
\* to the pool.
get_db_commit(r) ==
    /\ At(r, "db_commit")
    /\ req' = [req EXCEPT ![r].pc = "db_close", ![r].conn = FALSE,
                          ![r].body = Append(@, "commit")]
    /\ pool' = IF req[r].conn THEN pool - 1 ELSE pool
    /\ UNCHANGED <<Store, Limiter, issued, resp, nreq, faults>>

\* session.commit() raises (the store is gone): caught by "except" as well.
get_db_commit_fails(r) ==
    /\ At(r, "db_commit")
    /\ req[r].conn
    /\ faults < MaxFaults
    /\ faults' = faults + 1
    /\ req' = [req EXCEPT ![r].pc = "db_rollback", ![r].detail = "commit raised",
                          ![r].body = Append(@, "commit raised")]
    /\ UNCHANGED <<Store, Limiter, issued, pool, resp, nreq>>

\* except Exception: await session.rollback(); raise
get_db_rollback(r) ==
    /\ At(r, "db_rollback")
    /\ req' = [req EXCEPT ![r].pc = "db_close", ![r].conn = FALSE, ![r].status = 500,
                          ![r].body = Append(@, "rollback")]
    /\ pool' = IF req[r].conn THEN pool - 1 ELSE pool
    /\ UNCHANGED <<Store, Limiter, issued, resp, nreq, faults>>

\* finally: await session.close(); the request ends, with the exception that
\* "raise" passed on if there was one.
get_db_close(r) ==
    /\ At(r, "db_close")
    /\ resp' = [req[r] EXCEPT !.pc = "done", !.body = Append(@, "close"),
                              !.status = IF req[r].status = 500 THEN 500 ELSE 200]
    /\ req' = [req EXCEPT ![r] = Idle]
    /\ UNCHANGED <<Store, Limiter, issued, pool, nreq, faults>>

\* ------------------------------------------------------- store failure
CommitPcs == {"p_commit", "r_commit", "c_commit", "up_commit", "del_commit", "v_commit",
              "as_commit"}
RefreshPcs == {"p_refresh", "r_refresh", "c_refresh", "up_refresh", "v_refresh",
               "as_refresh"}
StatementPcs == {"p_sweet", "p_inv", "r_sweet", "r_inv", "u_list", "c_cat",
                 "up_sweet", "del_sweet", "g_email", "g_username", "g_create",
                 "l_user", "v_sweet", "v_existing", "ui_get", "ui_update", "ui_insert",
                 "s_cat", "s_query", "as_sweet", "gp_list"} \cup CommitPcs \cup RefreshPcs

\* A store statement raises (connection lost, pool timeout): the handler
\* ends with 500, get_db rolls the session back and closes it.
StoreFailure(r) ==
    /\ AtAny(r, StatementPcs)
    /\ faults < MaxFaults
    /\ faults' = faults + 1
    /\ Finish(r, Resp(500, "store failure"), TRUE)
    /\ UNCHANGED <<Store, Limiter, issued, nreq>>

\* ------------------------------------------------------------------ spec
\* def check_rate_limit(self, user_id, max_requests: int = 100, window: int = 60)
DefaultMaxRequests == 100
DefaultWindow == 60

\* rate_limiter = RateLimiter(): self.requests = {}
RateLimiterInit ==
    /\ requests = <<>>
    /\ clock = 0
    /\ max_requests = DefaultMaxRequests
    /\ window = DefaultWindow
    /\ calls = <<>>

Init ==
    /\ users = (1 :> "admin") @@ (2 :> "customer")
    /\ roles = {"admin", "customer"}
    /\ sweets = <<SweetRow(<<"B", "a", "r", "f", "i">>, 1, 30), SweetRow(<<"L", "a", "d", "o", "o">>, 1, 10)>>
    /\ inventory = {[id |-> 1, sweet_id |-> 1, quantity |-> InitQty]}
    /\ purchases = <<>>
    /\ restocks = <<>>
    /\ audit_logs = <<>>
    /\ accounts = (1 :> AccountRow(<<"a", "d", "m">>, "admin@gujaratsweets.com", "hash123"))
                  @@ (2 :> AccountRow(<<"u", "s", "r">>, "user1@gujaratsweets.com", "hash123"))
    /\ reviews = <<>>
    /\ issued = {}
    /\ pool = 0
    /\ req = [r \in Slots |-> Idle]
    /\ resp = Idle
    /\ nreq = 0
    /\ faults = 0
    /\ RateLimiterInit

Next ==
    \/ Respond
    \/ \E r \in Slots :
           \/ create_purchase_receive(r)
           \/ create_purchase_sweet(r)
           \/ create_purchase_inventory(r)
           \/ create_purchase_commit(r)
           \/ create_purchase_refresh(r)
           \/ restock_inventory_receive(r)
           \/ restock_inventory_sweet(r)
           \/ restock_inventory_inventory(r)
           \/ restock_inventory_commit(r)
           \/ restock_inventory_refresh(r)
           \/ get_all_users_receive(r)
           \/ get_all_users_list(r)
           \/ create_sweet_direct_receive(r)
           \/ create_sweet_direct_category(r)
           \/ create_sweet_direct_commit(r)
           \/ create_sweet_direct_refresh(r)
           \/ update_sweet_receive(r)
           \/ update_sweet_sweet(r)
           \/ update_sweet_commit(r)
           \/ update_sweet_refresh(r)
           \/ delete_sweet_receive(r)
           \/ delete_sweet_sweet(r)
           \/ delete_sweet_commit(r)
           \/ StoreFailure(r)

Spec == Init /\ [][Next]_vars

\* Registration, login, and the routes behind the two access gates called
\* with the tokens login has issued (and with directly made ones).
LoginTokens == issued \cup DirectTokens

get_all_users_login(r) == get_all_users_request(r, LoginTokens)

create_purchase_login(r) == create_purchase_request(r, LoginTokens)

AuthNext ==
    \/ Respond
    \/ \E r \in Slots :
           \/ register_user_receive(r)
           \/ register_user_email(r)
           \/ register_user_username(r)
           \/ register_user_create(r)
           \/ login_user_receive(r)
           \/ login_user_token(r)
           \/ get_all_users_login(r)
           \/ get_all_users_list(r)
           \/ create_purchase_login(r)
           \/ create_purchase_sweet(r)
           \/ create_purchase_inventory(r)
           \/ create_purchase_commit(r)
           \/ create_purchase_refresh(r)
           \/ StoreFailure(r)

AuthSpec == Init /\ [][AuthNext]_vars

\* Reviews next to the purchases, restocks and soft deletions of the same
\* products, called by the administrator and the customer with tokens that
\* name their roles.
create_review_direct(r) == create_review_request(r, DirectTokens)

create_purchase_direct(r) == create_purchase_request(r, DirectTokens)

restock_inventory_direct(r) == restock_inventory_request(r, DirectTokens)

delete_sweet_direct(r) == delete_sweet_request(r, DirectTokens)

ReviewNext ==
    \/ Respond
    \/ \E r \in Slots :
           \/ create_review_direct(r)
           \/ create_review_sweet(r)
           \/ create_review_existing(r)
           \/ create_review_commit(r)
           \/ create_review_refresh(r)
           \/ create_purchase_direct(r)
           \/ create_purchase_sweet(r)
           \/ create_purchase_inventory(r)
           \/ create_purchase_commit(r)
           \/ create_purchase_refresh(r)
           \/ restock_inventory_direct(r)
           \/ restock_inventory_sweet(r)
           \/ restock_inventory_inventory(r)
           \/ restock_inventory_commit(r)
           \/ restock_inventory_refresh(r)
           \/ delete_sweet_direct(r)
           \/ delete_sweet_sweet(r)
           \/ delete_sweet_commit(r)
           \/ StoreFailure(r)

ReviewSpec == Init /\ [][ReviewNext]_vars

\* Registrations and reviews, the two inserts under a uniqueness constraint.
ConflictNext ==
    \/ Respond
    \/ \E r \in Slots :
           \/ register_user_receive(r)
           \/ register_user_email(r)
           \/ register_user_username(r)
           \/ register_user_create(r)
           \/ create_review_direct(r)
           \/ create_review_sweet(r)
           \/ create_review_existing(r)
           \/ create_review_commit(r)
           \/ create_review_refresh(r)
           \/ StoreFailure(r)

ConflictSpec == Init /\ [][ConflictNext]_vars

\* Orders of up to MaxOrder pieces against a stocked shop (rows as the test
\* fixtures seed them), while the administrator changes prices; the store
\* answers every statement.
OrderQuantities == 1..MaxOrder

create_purchase_stocked(r) == create_purchase_order(r, DirectTokens, OrderQuantities)

update_sweet_direct(r) == update_sweet_request(r, DirectTokens)

PriceInit ==
    /\ users = (1 :> "admin") @@ (2 :> "customer")
    /\ roles = {"admin", "customer"}
    /\ sweets = <<SweetRow(<<"B", "a", "r", "f", "i">>, 1, 30), SweetRow(<<"L", "a", "d", "o", "o">>, 1, 10)>>
    /\ inventory = {[id |-> 1, sweet_id |-> 1, quantity |-> MaxOrder],
                    [id |-> 2, sweet_id |-> 2, quantity |-> MaxOrder]}
    /\ purchases = <<>>
    /\ restocks = <<>>
    /\ audit_logs = <<>>
    /\ accounts = (1 :> AccountRow(<<"a", "d", "m">>, "admin@gujaratsweets.com", "hash123"))
                  @@ (2 :> AccountRow(<<"u", "s", "r">>, "user1@gujaratsweets.com", "hash123"))
    /\ reviews = <<>>
    /\ issued = {}
    /\ pool = 0
    /\ req = [r \in Slots |-> Idle]
    /\ resp = Idle
    /\ nreq = 0
    /\ faults = 0
    /\ RateLimiterInit

PriceNext ==
    \/ Respond
    \/ \E r \in Slots :
           \/ create_purchase_stocked(r)
           \/ create_purchase_sweet(r)
           \/ create_purchase_inventory(r)
           \/ create_purchase_commit(r)
           \/ create_purchase_refresh(r)
           \/ update_sweet_direct(r)
           \/ update_sweet_sweet(r)
           \/ update_sweet_commit(r)
           \/ update_sweet_refresh(r)

PriceSpec == PriceInit /\ [][PriceNext]_vars

\* The catalogue's writers (price updates and soft deletions by the
\* administrator) next to the purchases and reviews of the same products.
CatalogNext ==
    \/ Respond
    \/ \E r \in Slots :
           \/ delete_sweet_direct(r)
           \/ delete_sweet_sweet(r)
           \/ delete_sweet_commit(r)
           \/ update_sweet_direct(r)
           \/ update_sweet_sweet(r)
           \/ update_sweet_commit(r)
           \/ update_sweet_refresh(r)
           \/ create_purchase_direct(r)
           \/ create_purchase_sweet(r)
           \/ create_purchase_inventory(r)
           \/ create_purchase_commit(r)
           \/ create_purchase_refresh(r)
           \/ create_review_direct(r)
           \/ create_review_sweet(r)
           \/ create_review_existing(r)
           \/ create_review_commit(r)
           \/ create_review_refresh(r)
           \/ StoreFailure(r)

CatalogSpec == Init /\ [][CatalogNext]_vars

\* The service layer's restock and the repository's inventory adjuster,
\* called while the administrator deletes sweets.
ServiceNext ==
    \/ Respond
    \/ \E r \in Slots :
           \/ admin_service_restock_call(r)
           \/ admin_service_restock_sweet(r)
           \/ admin_service_restock_commit(r)
           \/ admin_service_restock_return(r)
           \/ update_inventory_call(r)
           \/ update_inventory_get(r)
           \/ update_inventory_update(r)
           \/ update_inventory_insert(r)
           \/ delete_sweet_direct(r)
           \/ delete_sweet_sweet(r)
           \/ delete_sweet_commit(r)

ServiceSpec == Init /\ [][ServiceNext]_vars

\* The sessions get_db hands out.
SessionNext ==
    \/ Respond
    \/ \E r \in Slots :
           \/ get_db_yield(r)
           \/ handler_statement(r)
           \/ handler_ends(r)
           \/ get_db_commit(r)
           \/ get_db_commit_fails(r)
           \/ get_db_rollback(r)
           \/ get_db_close(r)

SessionSpec == Init /\ [][SessionNext]_vars

\* Purchases and restocks of the same products, overlapping as the event
\* loop lets them.
StockNext ==
    \/ Respond
    \/ \E r \in Slots :
           \/ create_purchase_direct(r)
           \/ create_purchase_sweet(r)
           \/ create_purchase_inventory(r)
           \/ create_purchase_commit(r)
           \/ create_purchase_refresh(r)
           \/ restock_inventory_direct(r)
           \/ restock_inventory_sweet(r)
           \/ restock_inventory_inventory(r)
           \/ restock_inventory_commit(r)
           \/ restock_inventory_refresh(r)
           \/ StoreFailure(r)

StockSpec == Init /\ [][StockNext]_vars

\* Registrations, logins and the administrator's listing, against a store
\* seeded with both roles (setup_roles.py) or one that has the admin role and
\* its user only.
RegisterInit ==
    /\ \/ /\ roles = {"admin", "customer"}
          /\ users = (1 :> "admin") @@ (2 :> "customer")
          /\ accounts = (1 :> AccountRow(<<"a", "d", "m">>, "admin@gujaratsweets.com", "hash123"))
                        @@ (2 :> AccountRow(<<"u", "s", "r">>, "user1@gujaratsweets.com", "hash123"))
       \/ /\ roles = {"admin"}
          /\ users = (1 :> "admin")
          /\ accounts = (1 :> AccountRow(<<"a", "d", "m">>, "admin@gujaratsweets.com", "hash123"))
    /\ sweets = <<SweetRow(<<"B", "a", "r", "f", "i">>, 1, 30), SweetRow(<<"L", "a", "d", "o", "o">>, 1, 10)>>
    /\ inventory = {[id |-> 1, sweet_id |-> 1, quantity |-> InitQty]}
    /\ purchases = <<>>
    /\ restocks = <<>>
    /\ audit_logs = <<>>
    /\ reviews = <<>>
    /\ issued = {}
    /\ pool = 0
    /\ req = [r \in Slots |-> Idle]
    /\ resp = Idle
    /\ nreq = 0
    /\ faults = 0
    /\ RateLimiterInit

RegisterNext ==
    \/ Respond
    \/ \E r \in Slots :
           \/ register_user_receive(r)
           \/ register_user_email(r)
           \/ register_user_username(r)
           \/ register_user_create(r)
           \/ login_user_receive(r)
           \/ login_user_token(r)
           \/ get_all_users_login(r)
           \/ get_all_users_list(r)
           \/ StoreFailure(r)

RegisterSpec == RegisterInit /\ [][RegisterNext]_vars

\* --------------------------------------------------- GET /api/purchases
RECURSIVE OwnPurchases_Everyone(_, _)
OwnPurchases_Everyone(ps, uid) ==
    IF ps = <<>> THEN <<>>
    ELSE <<Len(ps)>> \o OwnPurchases_Everyone(SubSeq(ps, 1, Len(ps) - 1), uid)

\* select(Purchase).where(Purchase.user_id == current_user.id)
\*     .order_by(Purchase.purchased_at.desc()): the ids, the latest first.
RECURSIVE OwnPurchases(_, _)
OwnPurchases(ps, uid) ==
    IF ps = <<>> THEN <<>>
    ELSE (IF ps[Len(ps)].user_id = uid THEN <<Len(ps)>> ELSE <<>>)
         \o OwnPurchases(SubSeq(ps, 1, Len(ps) - 1), uid)

get_user_purchases_request(r, toks) ==
    /\ Receivable(r)
    /\ nreq' = nreq + 1
    /\ \E tok \in toks :
         LET pre == GetCurrentUserDecode(tok)
             chk == GetCurrentUserLookup(tok, users)
             rq == NewRequest("purchases", tok, 0, 0, 0, 0)
         IN IF pre # Continue THEN Reject(r, rq, pre, FALSE)
            ELSE IF chk # Continue THEN PoolHasFree(pool) /\ Reject(r, rq, chk, TRUE)
            ELSE Enter(r, [rq EXCEPT !.user = tok.sub], "gp_list")
    /\ UNCHANGED <<Store, Limiter, issued, faults>>

get_user_purchases_receive(r) == get_user_purchases_request(r, Tokens)

get_user_purchases_list(r) ==
    /\ At(r, "gp_list")
    /\ FinishWith(r, Resp(200, "purchases"), OwnPurchases(purchases, req[r].user))
    /\ UNCHANGED <<Store, Limiter, issued, nreq, faults>>

\* The user_id keys a purchase body may carry besides the declared ones.
BodyUserIds == {NoRow, 1, 2}

create_purchase_extra(r) ==
    create_purchase_posted(r, DirectTokens, {1}, BodyUserIds)

\* The purchases made before: every row was made by create_purchase for one
\* of the two users, its audit row by the trigger.
MaxLedger == 2
LedgerUsers == {1, 2}

LedgerRow(uid) ==
    PurchaseRow([user |-> uid, sweet |-> 1, qty |-> 1, price |-> 30])

RECURSIVE LedgerAudit(_)
LedgerAudit(ps) ==
    IF ps = <<>> THEN <<>>
    ELSE InsertAuditLog(LedgerAudit(SubSeq(ps, 1, Len(ps) - 1)), "purchases",
                        Len(ps), ps[Len(ps)])

LedgerInit ==
    /\ users = (1 :> "admin") @@ (2 :> "customer")
    /\ roles = {"admin", "customer"}
    /\ accounts = (1 :> AccountRow(<<"a", "d", "m">>, "admin@gujaratsweets.com", "hash123"))
                  @@ (2 :> AccountRow(<<"u", "s", "r">>, "user1@gujaratsweets.com", "hash123"))
    /\ sweets = <<SweetRow(<<"B", "a", "r", "f", "i">>, 1, 30), SweetRow(<<"L", "a", "d", "o", "o">>, 1, 10)>>
    /\ \E n \in 0..MaxLedger : \E buyers \in [1..n -> LedgerUsers] :
          /\ purchases = [i \in 1..n |-> LedgerRow(buyers[i])]
          /\ audit_logs = LedgerAudit([i \in 1..n |-> LedgerRow(buyers[i])])
    /\ inventory = {[id |-> 1, sweet_id |-> 1, quantity |-> InitQty]}
    /\ restocks = <<>>
    /\ reviews = <<>>
    /\ issued = {}
    /\ pool = 0
    /\ req = [r \in Slots |-> Idle]
    /\ resp = Idle
    /\ nreq = 0
    /\ faults = 0
    /\ RateLimiterInit

LedgerNext ==
    \/ Respond
    \/ \E r \in Slots :
           \/ create_purchase_extra(r)
           \/ create_purchase_sweet(r)
           \/ create_purchase_inventory(r)
           \/ create_purchase_commit(r)
           \/ create_purchase_refresh(r)
           \/ get_user_purchases_receive(r)
           \/ get_user_purchases_list(r)
           \/ StoreFailure(r)

LedgerSpec == LedgerInit /\ [][LedgerNext]_vars

\* ------------------------------------------ RateLimiter.check_rate_limit
MaxCalls == 4
MaxClock == 3
RateUsers == {1, 2}
MaxRequestsArgs == {1, 2}
WindowArgs == {1, 2}

CleanOld_DropsAll(times, now, w) == <<>>
\* [req_time for req_time in self.requests[user_id] if now - req_time < window]
CleanOld(times, now, w) == SelectSeq(times, LAMBDA req_time : now - req_time < w)

\* One call: the list of the user is created if missing and cleaned; the call
\* returns False when the list is full, otherwise now is appended and the
\* call returns True.
check_rate_limit(user_id) ==
    /\ Len(calls) < MaxCalls
    /\ LET now == clock
           known == IF user_id \in DOMAIN requests THEN requests[user_id] ELSE <<>>
           kept == CleanOld(known, now, window)
           result == ~(Len(kept) >= max_requests)
       IN /\ requests' = [u \in DOMAIN requests \cup {user_id} |->
                             IF u = user_id
                             THEN (IF result THEN Append(kept, now) ELSE kept)
                             ELSE requests[u]]
          /\ calls' = Append(calls, [user_id |-> user_id, now |-> now, result |-> result])
    /\ UNCHANGED <<Store, issued, pool, req, resp, nreq, faults, clock, max_requests, window>>

\* Time passes between two calls.
ClockAdvances ==
    /\ clock < MaxClock
    /\ clock' = clock + 1
    /\ UNCHANGED <<Store, issued, pool, req, resp, nreq, faults, requests, max_requests,
                   window, calls>>

LimitInit ==
    /\ users = (1 :> "admin") @@ (2 :> "customer")
    /\ roles = {"admin", "customer"}
    /\ sweets = <<SweetRow(<<"B", "a", "r", "f", "i">>, 1, 30), SweetRow(<<"L", "a", "d", "o", "o">>, 1, 10)>>
    /\ inventory = {[id |-> 1, sweet_id |-> 1, quantity |-> InitQty]}
    /\ purchases = <<>>
    /\ restocks = <<>>
    /\ audit_logs = <<>>
    /\ accounts = (1 :> AccountRow(<<"a", "d", "m">>, "admin@gujaratsweets.com", "hash123"))
                  @@ (2 :> AccountRow(<<"u", "s", "r">>, "user1@gujaratsweets.com", "hash123"))
    /\ reviews = <<>>
    /\ issued = {}
    /\ pool = 0
    /\ req = [r \in Slots |-> Idle]
    /\ resp = Idle
    /\ nreq = 0
    /\ faults = 0
    /\ requests = <<>>
    /\ clock = 0
    /\ max_requests \in MaxRequestsArgs
    /\ window \in WindowArgs
    /\ calls = <<>>

LimitNext ==
    \/ ClockAdvances
    \/ \E user_id \in RateUsers : check_rate_limit(user_id)

LimitSpec == LimitInit /\ [][LimitNext]_vars

\* Searches next to the price updates and soft deletions of the sweets they
\* read.
search_sweets_direct(r) == search_sweets_request(r, DirectTokens)

SearchNext ==
    \/ Respond
    \/ \E r \in Slots :
           \/ search_sweets_direct(r)
           \/ search_sweets_category(r)
           \/ search_sweets_query(r)
           \/ update_sweet_direct(r)
           \/ update_sweet_sweet(r)
           \/ update_sweet_commit(r)
           \/ update_sweet_refresh(r)
           \/ delete_sweet_direct(r)
           \/ delete_sweet_sweet(r)
           \/ delete_sweet_commit(r)

SearchSpec == Init /\ [][SearchNext]_vars

\* The repository's inventory adjuster called on its own sessions.
RepositoryNext ==
    \/ Respond
    \/ \E r \in Slots :
           \/ update_inventory_call(r)
           \/ update_inventory_get(r)
           \/ update_inventory_update(r)
           \/ update_inventory_insert(r)
           \/ StoreFailure(r)

RepositorySpec == Init /\ [][RepositoryNext]_vars

\* ================================================================ claims
StepOf(r) == req'[r] # req[r] /\ faults' = faults

InitialStock(s) == IF s = 1 THEN InitQty ELSE 0

RECURSIVE SumPurchased(_, _)
SumPurchased(rows, s) ==
    IF rows = <<>> THEN 0
    ELSE (IF Head(rows).sweet_id = s THEN Head(rows).quantity_purchased ELSE 0)
         + SumPurchased(Tail(rows), s)

RECURSIVE SumRestocked(_, _)
SumRestocked(rows, s) ==
    IF rows = <<>> THEN 0
    ELSE (IF Head(rows).sweet_id = s THEN Head(rows).quantity_added ELSE 0)
         + SumRestocked(Tail(rows), s)

OtherRowsKept(s) ==
    {row \in inventory : row.sweet_id # s} = {row \in inventory' : row.sweet_id # s}

C2_QuantityNonNegative == \A row \in inventory : row.quantity >= 0

\* A restock and a purchase both committed and the row is back at zero.
C2_Witness ==
    /\ Len(purchases) = 1 /\ Len(restocks) = 1
    /\ purchases[1].sweet_id = restocks[1].sweet_id
    /\ InventoryQuantity(inventory, purchases[1].sweet_id) = 0

\* C3: two overlapping purchases of one sweet never both succeed against a
\* stock too small for both: each commit was validated against the quantity
\* the store holds at that commit, so what was bought never exceeds what was
\* there (initial stock plus restocks).
C3_NoOversell ==
    /\ [](\A s \in SweetIds :
            SumPurchased(purchases, s) <= InitialStock(s) + SumRestocked(restocks, s))
    /\ [][\A r \in Slots :
            (req[r].pc = "p_commit" /\ StepOf(r)) =>
                req[r].readQty = InventoryQuantity(inventory, req[r].sweet)]_vars

\* One purchase has committed and its handler is still running while a second
\* purchase of the same sweet, which the initial stock alone would have
\* covered, is refused.
C3_Witness ==
    \E r \in Slots :
        /\ req[r].kind = "purchase" /\ req[r].pc = "p_refresh"
        /\ resp.kind = "purchase" /\ resp.status = 400
        /\ resp.sweet = req[r].sweet
        /\ Len(restocks) = 0
        /\ req[r].qty <= InitialStock(resp.sweet)
        /\ resp.qty <= InitialStock(resp.sweet)
        /\ resp.qty + req[r].qty > InitialStock(resp.sweet)

C5_RestockContract ==
    [][/\ \A r \in Slots :
            LET rq == req[r]
                Q == InventoryQuantity(inventory, rq.sweet)
            IN /\ (rq.pc \in {"r_sweet", "r_inv"} /\ StepOf(r) /\ SweetVisible(sweets, rq.sweet)) =>
                    req'[r].pc \in {"r_inv", "r_commit"}
               /\ (rq.pc = "r_commit" /\ StepOf(r)) =>
                    /\ rq.qty > 0 /\ rq.sweet > 0
                    /\ users[rq.tok.sub] = "admin"
                    /\ InventoryQuantity(inventory', rq.sweet)
                          = (IF Q = NoRow THEN 0 ELSE Q) + rq.qty
                    /\ OtherRowsKept(rq.sweet)
                    /\ restocks' = Append(restocks, [admin_id |-> rq.tok.sub,
                                                     sweet_id |-> rq.sweet,
                                                     quantity_added |-> rq.qty])
                    /\ req'[r].pc = "r_refresh"
               /\ (rq.pc = "r_refresh" /\ StepOf(r)) =>
                    resp'.kind = "restock" /\ resp'.status = 201
               /\ (req'[r].kind = "restock") => (req'[r].qty > 0 /\ req'[r].sweet > 0)
       /\ (resp = Idle /\ resp'.kind = "restock" /\ (resp'.qty <= 0 \/ resp'.sweet <= 0)) =>
            /\ resp'.status = 422
            /\ ~resp'.lookup /\ ~resp'.wrote
            /\ Store' = Store
    ]_vars

\* A restock was answered 201 and the row holds the old stock plus q.
C5_Witness ==
    /\ resp.kind = "restock" /\ resp.status = 201
    /\ Len(purchases) = 0
    /\ restocks = <<[admin_id |-> 1, sweet_id |-> resp.sweet, quantity_added |-> resp.qty]>>
    /\ InventoryQuantity(inventory, resp.sweet) = InitialStock(resp.sweet) + resp.qty

\* C6: a restock of a sweet without an inventory row creates the row with
\* the quantity added, and no sweet ever has more than one inventory row.
C6_OneRowPerSweet ==
    /\ [](\A row \in inventory : Cardinality(InventoryRows(inventory, row.sweet_id)) = 1)
    /\ [][\A r \in Slots :
            (req[r].pc = "r_commit" /\ StepOf(r) /\ InventoryRows(inventory, req[r].sweet) = {}) =>
                /\ Cardinality(InventoryRows(inventory', req[r].sweet)) = 1
                /\ InventoryQuantity(inventory', req[r].sweet) = req[r].qty]_vars

\* Two restocks of the sweet that started without a row: one row, their sum.
C6_Witness ==
    /\ Len(restocks) = 2
    /\ restocks[1].sweet_id = 2 /\ restocks[2].sweet_id = 2
    /\ Cardinality(InventoryRows(inventory, 2)) = 1
    /\ InventoryQuantity(inventory, 2) = restocks[1].quantity_added + restocks[2].quantity_added

AuditOf(table, id) ==
    {j \in 1..Len(audit_logs) :
        audit_logs[j].target_table = table /\ audit_logs[j].target_id = id}

\* C7: every purchase and every restock record has exactly one audit entry,
\* tagged PURCHASE / RESTOCK, with the buyer / admin as actor, the record's id
\* as target id and the quantity (and total price of a purchase) as metadata;
\* every audit entry belongs to such a record.
C7_AuditMatchesRecords ==
    /\ \A i \in 1..Len(purchases) :
          /\ Cardinality(AuditOf("purchases", i)) = 1
          /\ \A j \in AuditOf("purchases", i) :
                /\ audit_logs[j].action = "PURCHASE"
                /\ audit_logs[j].user_id = purchases[i].user_id
                /\ audit_logs[j].metadata =
                      [quantity_purchased |-> purchases[i].quantity_purchased,
                       total_price |-> purchases[i].total_price]
    /\ \A i \in 1..Len(restocks) :
          /\ Cardinality(AuditOf("restocks", i)) = 1
          /\ \A j \in AuditOf("restocks", i) :
                /\ audit_logs[j].action = "RESTOCK"
                /\ audit_logs[j].user_id = restocks[i].admin_id
                /\ audit_logs[j].metadata = [quantity_added |-> restocks[i].quantity_added]
    /\ \A j \in 1..Len(audit_logs) :
          \/ audit_logs[j].target_table = "purchases" /\ audit_logs[j].target_id \in 1..Len(purchases)
          \/ audit_logs[j].target_table = "restocks" /\ audit_logs[j].target_id \in 1..Len(restocks)

\* A purchase and a restock have both been answered 201 or are about to be.
C7_Witness == Len(purchases) = 1 /\ Len(restocks) = 1 /\ Len(audit_logs) = 2

RoleGateFails(tok) ==
    /\ DecodeToken(tok) = "ok"
    /\ tok.sub \in DOMAIN users
    /\ (users[tok.sub] # tok.role \/ users[tok.sub] # "admin")

\* C8: a restock or user-listing request with a well-signed, unexpired token
\* is answered 403 whenever the stored role differs from the role claim or
\* is not admin.
C8_ForbiddenOnRoleMismatch ==
    (/\ resp.kind \in {"restock", "list_users"}
     /\ (resp.kind = "restock" => (resp.qty > 0 /\ resp.sweet > 0))
     /\ RoleGateFails(resp.tok)) => resp.status = 403

AdminEffect ==
    \/ restocks' # restocks
    \/ sweets' # sweets
    \/ resp = Idle /\ resp'.kind = "list_users" /\ resp'.status = 200

\* C9: a restock record (and its inventory increase), a user listing, a sweet
\* created, updated or soft-deleted only ever come from a request whose token
\* is well signed and unexpired and whose user's stored role is admin.
C9_AdminEffectsNeedStoredAdmin ==
    [][AdminEffect =>
         \E r \in Slots :
            /\ req'[r] # req[r]
            /\ DecodeToken(req[r].tok) = "ok"
            /\ req[r].tok.sub \in DOMAIN users
            /\ users[req[r].tok.sub] = "admin"]_vars

\* After a real admin restock, a customer's well-signed token that claims the
\* admin role was turned away from the restock.
C9_Witness ==
    /\ Len(restocks) = 1
    /\ resp.kind = "restock" /\ resp.qty > 0 /\ resp.sweet > 0
    /\ DecodeToken(resp.tok) = "ok"
    /\ resp.tok.role = "admin" /\ resp.tok.sub \in DOMAIN users
    /\ users[resp.tok.sub] = "customer"
    /\ resp.status # 201 /\ ~resp.wrote

\* C10: on every protected route a request without a usable credential
\* (absent, malformed, expired, wrong signature) is answered 401, with detail
\* "Token expired" for an expired token and "Invalid token" for a bad
\* signature, before any user/role lookup and before any store change.
C10_UnauthorizedBeforeLookup ==
    (/\ resp.kind # "none"
     /\ (resp.kind = "restock" => (resp.qty > 0 /\ resp.sweet > 0))
     /\ DecodeToken(resp.tok) # "ok") =>
        /\ resp.status = 401
        /\ (resp.tok.form = "jwt" /\ resp.tok.sig = "bad") => resp.detail = "Invalid token"
        /\ (resp.tok.form = "jwt" /\ resp.tok.sig = "good" /\ resp.tok.exp = "expired") =>
              resp.detail = "Token expired"
        /\ ~resp.lookup
        /\ ~resp.wrote

\* C11: every token login issues carries a role claim, so that the token of
\* a user whose stored role is admin is let through the admin access gate.
C11_LoginTokenPassesAdminGate ==
    /\ \A t \in issued : t.sub \in DOMAIN users /\ t.role = users[t.sub]
    /\ (/\ resp.kind = "list_users"
        /\ resp.tok \in issued
        /\ resp.tok.sub \in DOMAIN users
        /\ users[resp.tok.sub] = "admin"
        /\ resp.detail # "store failure") => resp.status = 200

NewAccounts == {id \in DOMAIN accounts' : id \notin DOMAIN accounts}

\* C12: a registration with a valid body and a free email and username is
\* answered 201 and stores the user; a login with a stored user's email and
\* password is answered 200 with a token whose subject is that user's id;
\* and a protected route called with that token runs as that user.
C12_RegisterLoginRoundTrip ==
    /\ [][\A r \in Slots :
            /\ (req[r].pc = "g_create" /\ StepOf(r)) =>
                  /\ resp'.kind = "register" /\ resp'.status = 201
                  /\ \E id \in NewAccounts :
                        /\ accounts'[id].email = req[r].email
                        /\ VerifyPassword(req[r].password, accounts'[id].password_hash)
            /\ (req[r].pc = "l_user" /\ StepOf(r)) =>
                  \A id \in DOMAIN accounts :
                      (/\ accounts[id].email = req[r].email
                       /\ VerifyPassword(req[r].password, accounts[id].password_hash)) =>
                          /\ resp'.status = 200
                          /\ resp'.tok.sub = id
                          /\ resp'.tok \in issued'
            /\ (req[r].pc = "idle" /\ req'[r].pc = "p_sweet" /\ req'[r].tok \in issued) =>
                  req'[r].user = req'[r].tok.sub /\ req'[r].user \in DOMAIN users
       ]_vars

\* C13: a registration whose email or (normalised) username an existing user
\* has is answered 400 and leaves the store as it was; no two users ever
\* share an email or a username.
C13_UniqueEmailUsername ==
    /\ [](\A a, b \in DOMAIN accounts :
             a # b => /\ accounts[a].email # accounts[b].email
                      /\ accounts[a].username # accounts[b].username)
    /\ [][\A r \in Slots :
            /\ (req[r].pc = "g_email" /\ StepOf(r)
                /\ \E id \in DOMAIN accounts : accounts[id].email = req[r].email) =>
                  /\ resp'.kind = "register" /\ resp'.status = 400
                  /\ resp'.detail = "Email already registered"
                  /\ Store' = Store
            /\ (req[r].pc = "g_username" /\ StepOf(r)
                /\ \E id \in DOMAIN accounts : accounts[id].username = req[r].username) =>
                  /\ resp'.kind = "register" /\ resp'.status = 400
                  /\ resp'.detail = "Username already taken"
                  /\ Store' = Store
            /\ (req[r].kind = "register" /\ StepOf(r)) =>
                  \A id \in NewAccounts :
                      /\ ~\E old \in DOMAIN accounts :
                            \/ accounts[old].email = accounts'[id].email
                            \/ accounts[old].username = accounts'[id].username
                      /\ users'[id] = "customer"
       ]_vars

\* A registration under a new email was refused because its username, once
\* lower-cased, is the administrator's.
C13_Witness ==
    /\ resp.kind = "register" /\ resp.status = 400
    /\ resp.detail = "Username already taken"
    /\ resp.email = "new@example.com"
    /\ resp.username = accounts[1].username
    /\ Cardinality(DOMAIN accounts) = 2

SamePair(row, user, sweet) == row.user_id = user /\ row.sweet_id = sweet

Missing(s) == s \notin DOMAIN sweets \/ sweets[s].is_deleted

\* C16: a purchase, restock or review naming a product that does not exist
\* or is soft-deleted is answered 404 and changes nothing; no purchase,
\* restock or review is ever committed for such a product.
C16_MissingProductNotFound ==
    /\ [](/\ \A i \in DOMAIN purchases : purchases[i].sweet_id \in DOMAIN sweets
          /\ \A i \in DOMAIN restocks : restocks[i].sweet_id \in DOMAIN sweets
          /\ \A i \in DOMAIN reviews : reviews[i].sweet_id \in DOMAIN sweets
          /\ \A row \in inventory : row.sweet_id \in DOMAIN sweets)
    /\ [][\A r \in Slots :
            /\ (/\ req[r].pc \in {"p_sweet", "r_sweet", "v_sweet"} /\ StepOf(r)
                /\ Missing(req[r].sweet)) =>
                  /\ resp'.kind = req[r].kind
                  /\ resp'.status = 404 /\ resp'.detail = "Sweet not found"
                  /\ ~resp'.wrote
                  /\ Store' = Store
            /\ (req[r].pc \in {"p_commit", "r_commit", "v_commit"} /\ StepOf(r)) =>
                  ~Missing(req[r].sweet)
       ]_vars

\* A purchase that the stock would cover was refused because the product
\* had been soft-deleted.
C16_Witness ==
    /\ resp.kind = "purchase" /\ resp.status = 404
    /\ resp.sweet \in DOMAIN sweets /\ sweets[resp.sweet].is_deleted
    /\ InventoryQuantity(inventory, resp.sweet) >= resp.qty
    /\ purchases = <<>>

Authenticated(tok) == DecodeToken(tok) = "ok" /\ tok.sub \in DOMAIN users

C19_UpdateInventory ==
    /\ [](\A row \in inventory : row.quantity >= 0)
    /\ [][\A r \in Slots :
            LET p == req[r].sweet
                d == req[r].qty
                c == InventoryQuantity(inventory, p)
            IN /\ (req[r].pc = "ui_get" /\ StepOf(r)) =>
                     /\ Store' = Store
                     /\ IF (c # NoRow /\ c + d < 0) \/ (c = NoRow /\ d < 0)
                        THEN resp'.detail = "IntegrityConstraintError" /\ ~resp'.wrote
                        ELSE req'[r].pc = (IF c = NoRow THEN "ui_insert" ELSE "ui_update")
               /\ (req[r].pc = "ui_update" /\ StepOf(r)) =>
                     /\ c # NoRow /\ c + d >= 0
                     /\ InventoryQuantity(inventory', p) = c + d
                     /\ Cardinality(InventoryRows(inventory', p)) = 1
                     /\ OtherRowsKept(p)
                     /\ resp'.detail = "returned"
               /\ (req[r].pc = "ui_insert" /\ StepOf(r) /\ p \in DOMAIN sweets) =>
                     /\ c = NoRow /\ d >= 0
                     /\ InventoryQuantity(inventory', p) = d
                     /\ Cardinality(InventoryRows(inventory', p)) = 1
                     /\ OtherRowsKept(p)
                     /\ resp'.detail = "returned"
       ]_vars

\* After the row was brought to zero a further decrease was refused, and a
\* row created by the adjuster exists.
C19_Witness ==
    /\ resp.kind = "update_inventory" /\ resp.detail = "IntegrityConstraintError"
    /\ resp.qty < 0
    /\ InventoryQuantity(inventory, resp.sweet) = 0
    /\ inventory # {[id |-> 1, sweet_id |-> 1, quantity |-> InitQty]}

Grows(old, new) == Len(new) >= Len(old) /\ \A i \in DOMAIN old : new[i] = old[i]

\* C21: purchase and restock records are immutable and the audit log is
\* append-only: no step of any operation modifies or deletes a purchase,
\* restock or audit row, so each of the three only grows.
C21_RecordsOnlyGrow ==
    [][/\ Grows(purchases, purchases')
       /\ Grows(restocks, restocks')
       /\ Grows(audit_logs, audit_logs')]_vars

\* A purchase and a restock are on record with their two audit rows: the
\* later of the two commits ran with the earlier rows in place.
C21_Witness ==
    /\ Len(purchases) = 1 /\ Len(restocks) = 1 /\ Len(audit_logs) = 2
    /\ resp.status = 201

\* C22: deleting a sweet only sets its is_deleted flag: no step removes a
\* sweet row or clears the flag, a step of DELETE /sweets/{id} leaves the
\* other rows of sweets and the inventory, purchases, restocks and reviews as
\* they were, and deleting a sweet that is already deleted is answered 404.
C22_SoftDelete ==
    [][/\ \A id \in DOMAIN sweets :
             /\ id \in DOMAIN sweets'
             /\ sweets[id].is_deleted => sweets'[id].is_deleted
       /\ \A r \in Slots :
            (req[r].kind = "delete_sweet" /\ StepOf(r)) =>
               /\ <<inventory, purchases, restocks, reviews, audit_logs>>'
                      = <<inventory, purchases, restocks, reviews, audit_logs>>
               /\ \A id \in DOMAIN sweets :
                      \/ sweets'[id] = sweets[id]
                      \/ /\ id = req[r].sweet
                         /\ req[r].pc = "del_commit"
                         /\ sweets'[id] = [sweets[id] EXCEPT !.is_deleted = TRUE]
               /\ (/\ req[r].pc = "del_sweet"
                   /\ req[r].sweet \in DOMAIN sweets
                   /\ sweets[req[r].sweet].is_deleted) =>
                      /\ resp'.status = 404
                      /\ sweets' = sweets
    ]_vars

\* A sweet with an inventory row was deleted, both rows are still there, and
\* a second deletion of it was answered 404.
C22_Witness ==
    /\ resp.kind = "delete_sweet" /\ resp.status = 404
    /\ resp.sweet \in DOMAIN sweets /\ sweets[resp.sweet].is_deleted
    /\ InventoryQuantity(inventory, resp.sweet) # NoRow

SweetWriters == {"update_sweet", "delete_sweet"}

SearchStep ==
    \/ resp = Idle /\ resp' # Idle /\ resp'.kind = "search"
    \/ \E r \in Slots : req'[r] # req[r] /\ "search" \in {req[r].kind, req'[r].kind}

\* What a search asks for, apart from the sweet being on sale.
Wanted(row, rq) ==
    /\ rq.name = <<>> \/ NameILike(row.name, rq.name)
    /\ rq.category = "" \/ \E c \in DOMAIN CategoryName :
                              CategoryName[c] = rq.category /\ row.category_id = c
    /\ rq.min_price = NoFilter \/ row.price >= rq.min_price
    /\ rq.max_price = NoFilter \/ row.price <= rq.max_price

\* C24: GET /sweets/search is a pure read: no step of it changes the store;
\* it answers 200 with exactly the sweets on sale that meet the filters, each
\* once, in the order of their names, so with the empty list when nothing
\* matches or the named category does not exist, never with a soft-deleted
\* sweet, and with the same list whenever the store is the same.
C24_SearchPureRead ==
    [][/\ SearchStep => Store' = Store
       /\ (resp = Idle /\ resp' # Idle /\ resp'.kind = "search" /\ Authenticated(resp'.tok)) =>
            LET body == resp'.body
            IN /\ resp'.status = 200
               /\ \A i \in DOMAIN body :
                     /\ body[i] \in DOMAIN sweets
                     /\ ~sweets[body[i]].is_deleted
                     /\ Wanted(sweets[body[i]], resp')
               /\ \A id \in DOMAIN sweets :
                     (~sweets[id].is_deleted /\ Wanted(sweets[id], resp')) =>
                        \E i \in DOMAIN body : body[i] = id
               /\ \A i, j \in DOMAIN body :
                     i < j => /\ body[i] # body[j]
                              /\ ~NameBefore(sweets[body[j]].name, sweets[body[i]].name)
               /\ (\A c \in DOMAIN CategoryName : CategoryName[c] # resp'.category)
                     /\ resp'.category # "" => body = <<>>
    ]_vars

\* A search without filters was answered with a list that leaves out the
\* sweet that had been deleted.
C24_Witness ==
    /\ resp.kind = "search" /\ resp.status = 200
    /\ resp.name = <<>> /\ resp.category = ""
    /\ resp.min_price = NoFilter /\ resp.max_price = NoFilter
    /\ resp.body # <<>>
    /\ \E id \in DOMAIN sweets : sweets[id].is_deleted

\* C25: AdminService.restock_inventory on success adds quantity_added to the
\* product's inventory and creates exactly one restock record in the same
\* unit of work; for a missing or soft-deleted product it raises
\* SweetNotFoundError and creates no record.
C25_ServiceRestock ==
    [][\A r \in Slots :
         LET rq == req[r]
             c == InventoryQuantity(inventory, rq.sweet)
         IN /\ (rq.pc = "as_sweet" /\ StepOf(r) /\ Missing(rq.sweet)) =>
                  /\ resp'.detail = "SweetNotFoundError"
                  /\ Store' = Store
            /\ (rq.pc = "as_commit" /\ StepOf(r)) =>
                  /\ Len(restocks') = Len(restocks) + 1
                  /\ restocks'[Len(restocks')] = [admin_id |-> rq.user, sweet_id |-> rq.sweet,
                                                  quantity_added |-> rq.qty]
                  /\ InventoryQuantity(inventory', rq.sweet)
                         = (IF c = NoRow THEN rq.qty ELSE c + rq.qty)
    ]_vars

\* C26: every session handed out by get_db ends in exactly one terminal
\* outcome and is closed: committed when the handler finishes without an
\* exception, rolled back (and the exception passed on) when the handler
\* raises, closed in both cases; no session holds a connection after its
\* request has ended.
C26_SessionEnds ==
    /\ [](pool = Cardinality({r \in Slots : req[r].conn}))
    /\ []((resp.kind = "session" /\ resp.pc = "done") =>
            /\ ~resp.conn
            /\ resp.body[Len(resp.body)] = "close"
            /\ Cardinality({i \in DOMAIN resp.body : resp.body[i] \in {"commit", "rollback"}}) = 1
            /\ Cardinality({i \in DOMAIN resp.body : resp.body[i] = "close"}) = 1
            /\ resp.detail = "returned" => resp.body = <<"commit", "close">> /\ resp.status = 200
            /\ resp.detail = "raised" => resp.body = <<"rollback", "close">> /\ resp.status = 500)

\* One session was rolled back and closed after its handler raised, while
\* the other session, whose handler ran a statement, holds the connection.
C26_Witness ==
    /\ resp.kind = "session" /\ resp.pc = "done" /\ resp.detail = "raised"
    /\ resp.body = <<"rollback", "close">>
    /\ \E r \in Slots : req[r].pc = "db_yielded" /\ req[r].conn

StockOf(s) == IF InventoryQuantity(inventory, s) = NoRow THEN 0
              ELSE InventoryQuantity(inventory, s)

\* C27: conservation of stock: in every reachable state, for every product,
\* the inventory quantity equals the initial quantity plus the quantities of
\* all committed restocks minus the quantities of all committed purchases.
C27_StockConserved ==
    \A s \in SweetIds :
        StockOf(s) = InitialStock(s) + SumRestocked(restocks, s) - SumPurchased(purchases, s)

\* A restock and a purchase of one sweet have both committed, the later one
\* while the earlier request was still running (its refresh is still to come).
C27_Witness ==
    /\ Len(purchases) = 1 /\ Len(restocks) = 1
    /\ purchases[1].sweet_id = restocks[1].sweet_id
    /\ resp = Idle
    /\ \A r \in Slots : req[r].pc \in {"p_refresh", "r_refresh"}

Admins == {u \in DOMAIN users : users[u] = "admin"}

\* C28: no sequence of operations changes who is an admin: no step changes
\* the role of an existing user or the roles table, a user that a
\* registration adds has the stored role customer, and a registration that
\* finds no customer role is answered 500 and adds no user.
C28_AdminsFixed ==
    [][/\ Admins' = Admins
       /\ roles' = roles
       /\ \A u \in DOMAIN users : u \in DOMAIN users' /\ users'[u] = users[u]
       /\ \A u \in DOMAIN users' \ DOMAIN users : users'[u] = "customer"
       /\ \A r \in Slots :
            (req[r].pc = "g_create" /\ StepOf(r) /\ "customer" \notin roles) =>
                /\ resp'.status = 500
                /\ resp'.detail = "Default role not found"
                /\ users' = users /\ accounts' = accounts
      ]_vars

\* A registration with a free email and username reached create_user in a
\* store without the customer role and was answered 500; the administrator
\* is still the only user.
C28_Witness ==
    /\ resp.kind = "register" /\ resp.status = 500
    /\ resp.detail = "Default role not found"
    /\ DOMAIN users = {1} /\ Admins = {1}

Ids(body) == {body[i] : i \in DOMAIN body}

OwnIds(uid) == {i \in DOMAIN purchases : purchases[i].user_id = uid}

Accepted(u) == {i \in DOMAIN calls : calls[i].user_id = u /\ calls[i].result}

\* C30: for every user, the calls that check_rate_limit accepted with
\* timestamps in a span shorter than window are at most max_requests; a
\* refused call records nothing, a call is accepted exactly when fewer than
\* max_requests accepted calls of the same user are less than window old, and
\* a call leaves the lists of the other users as they were.
C30_RateLimit ==
    /\ [](\A u \in RateUsers : \A first \in Accepted(u) :
            Cardinality({i \in Accepted(u) :
                            /\ calls[i].now >= calls[first].now
                            /\ calls[i].now - calls[first].now < window}) <= max_requests)
    /\ [][calls' # calls =>
            LET call == calls'[Len(calls')]
                u == call.user_id
                before == IF u \in DOMAIN requests THEN requests[u] ELSE <<>>
                recent == {i \in Accepted(u) : call.now - calls[i].now < window}
            IN /\ call.result <=> Cardinality(recent) < max_requests
               /\ ~call.result =>
                     /\ Len(requests'[u]) <= Len(before)
                     /\ \A i \in DOMAIN requests'[u] :
                           \E j \in DOMAIN before : before[j] = requests'[u][i]
               /\ call.result => requests'[u][Len(requests'[u])] = call.now
               /\ \A v \in DOMAIN requests \ {u} :
                     v \in DOMAIN requests' /\ requests'[v] = requests[v]
               /\ DOMAIN requests' = DOMAIN requests \cup {u}
      ]_vars

\* A user was refused while their window was full, the other user was
\* accepted at the same time, and the first user was accepted again once the
\* window had passed.
C30_Witness ==
    \E i, j, k \in DOMAIN calls :
        /\ i < j /\ j < k
        /\ calls[i].user_id = calls[k].user_id /\ calls[j].user_id # calls[i].user_id
        /\ ~calls[i].result /\ calls[j].result /\ calls[k].result
        /\ calls[j].now = calls[i].now
        /\ calls[k].now > calls[i].now

====
